---- MODULE Spec2Model ----
(***************************************************************************)
(* Model of the audit core of bolero-samba: the gap analyzer               *)
(* (gap_analysis.rs), the ZIP validity checker (scanner.rs) and the        *)
(* monthly health scorer with its cross-line combiner (ranking.rs).        *)
(*                                                                         *)
(* Dates (chrono::NaiveDate) are day numbers counted from 1970-01-01.      *)
(* Option<T> is a sequence: <<>> is None, <<v>> is Some(v).                *)
(* A panic of the evaluated expression is the two-element sequence Panic.  *)
(* f64 scores are exact rationals [n |-> numerator, d |-> denominator].    *)
(***************************************************************************)
EXTENDS Integers, Sequences, FiniteSets, TLC

VARIABLES
    pc,               \* position of the run: "ready" before the call, "done" after
    files,            \* &[FileEntry] handed to find_gaps / calculate_monthly_rankings
    line_id,          \* line identifier, "A" or "B"
    gap_report,       \* Option<GapReport>: result of find_gaps, input of the scorer
    zip_file,         \* the file is_zip_valid looks at
    zip_io,           \* which I/O step of is_zip_valid fails, "ok" when none
    zip_verdict,      \* Option<(bool, Option<String>)>: result of is_zip_valid
    metrics,          \* the MonthlyMetrics handed to calculate_health_score
    anomaly_report,   \* Option<AnomalyReport> handed to the scorer
    start_date,       \* configured project range, first day
    end_date,         \* configured project range, last day
    today,            \* Local::now().date_naive()
    ranking_report,   \* Option<MonthlyRankingReport>: result of the scorer
    line_a,           \* MonthlyRankingReport of line A handed to combine_rankings
    line_b,           \* MonthlyRankingReport of line B handed to combine_rankings
    combined_report,  \* Option<CombinedRankingReport>: result of combine_rankings
    dir_date,         \* result of extract_date_from_dir on one folder name
    dirs,             \* &HashMap<String, u64>: day identifier -> total bytes of the day
    threshold,        \* the low threshold handed to calculate_anomalies
    anomalies_report, \* Option<AnomalyReport>: result of calculate_anomalies
    integrity_stats,  \* Option<IntegrityStats>: result of calculate_integrity_stats
    tree,             \* what lies under the path handed to scan_files
    scan_result,      \* Option<Vec<FileEntry>>: result of scan_files
    fsys,             \* the alert files under base_dir: path -> Option<content>
    fs_before,        \* fsys as it was when the dashboard run started
    current,          \* line -> "ACTIVE" / "IDLE": what each audit measures
    email_cfg,        \* whether EmailConfig::load(base_dir) yields a configuration
    thread,           \* line -> position and locals of the line's audit thread
    clock,            \* Local::now() of the coming run of one line's audit
    alert_threshold,  \* --alert-threshold, a u64
    runs,             \* what each run of the line's audit so far was given and did
    lock_file,        \* Option<pid>: /tmp/beam_audit_dashboard.lock and the pid in it
    dash_runs,        \* pid -> position and doings of that run of generate_dashboard
    modified,         \* modified[i]: FileEntry::modified of files[i]
    current_copy_date \* Option<Option<NaiveDate>>: result of get_current_copy_date

fileVars == <<files, line_id, gap_report>>
zipVars == <<zip_file, zip_io, zip_verdict>>
rankVars == <<anomaly_report, start_date, end_date, today, ranking_report>>
combVars == <<line_a, line_b, combined_report>>

\* the variables of the functions modelled after the scorer and the combiner
dateVars == <<dir_date>>
anomVars == <<dirs, threshold, anomalies_report>>
integVars == <<integrity_stats>>
scanVars == <<tree, scan_result>>
dashVars == <<fsys, fs_before, current, email_cfg, thread>>
alertVars == <<clock, alert_threshold, runs>>
lockVars == <<lock_file, dash_runs>>
copyVars == <<modified, current_copy_date>>
laterVars == <<alertVars, lockVars, copyVars>>
extVars == <<dateVars, anomVars, integVars, scanVars, dashVars, laterVars>>

vars == <<pc, fileVars, zipVars, metrics, rankVars, combVars, extVars>>

None == <<>>
Some(v) == <<v>>
IsSome(o) == Len(o) = 1
\* the unwinding of a panic in place of a value
Panic == <<"panicked", "panicked">>
Unwrap(o) == o[1]

Min(a, b) == IF a <= b THEN a ELSE b
Max(a, b) == IF a >= b THEN a ELSE b

(***************************************************************************)
(* chrono::NaiveDate                                                       *)
(***************************************************************************)
IsLeapYear(y) == (y % 4 = 0 /\ y % 100 # 0) \/ y % 400 = 0

DaysInMonth(y, m) ==
    IF m = 2 THEN (IF IsLeapYear(y) THEN 29 ELSE 28)
    ELSE IF m \in {4, 6, 9, 11} THEN 30 ELSE 31

\* NaiveDate::from_ymd_opt(y, m, d).unwrap() as a day number (1970-01-01 = 0)
FromYmd(y, m, d) ==
    LET yy  == IF m <= 2 THEN y - 1 ELSE y
        era == yy \div 400
        yoe == yy - era * 400
        mp  == IF m > 2 THEN m - 3 ELSE m + 9
        doy == (153 * mp + 2) \div 5 + d - 1
        doe == yoe * 365 + yoe \div 4 - yoe \div 100 + doy
    IN  era * 146097 + doe - 719468

\* NaiveDate::from_ymd_opt(y, m, d): None for a date the calendar does not have
FromYmdOpt(y, m, d) ==
    IF m \in 1..12 /\ d >= 1 /\ d <= DaysInMonth(y, m)
    THEN Some(FromYmd(y, m, d))
    ELSE None

\* Datelike::year / month / day of a day number
Civil(z) ==
    LET zz  == z + 719468
        era == zz \div 146097
        doe == zz - era * 146097
        yoe == (doe - doe \div 1460 + doe \div 36524 - doe \div 146096) \div 365
        doy == doe - (365 * yoe + yoe \div 4 - yoe \div 100)
        mp  == (5 * doy + 2) \div 153
        d   == doy - (153 * mp + 2) \div 5 + 1
        m   == IF mp < 10 THEN mp + 3 ELSE mp - 9
        y   == yoe + era * 400 + (IF m <= 2 THEN 1 ELSE 0)
    IN  [year |-> y, month |-> m, day |-> d]

\* curr.weekday().number_from_monday(): Monday = 1 .. Sunday = 7
NumberFromMonday(z) == ((z + 3) % 7) + 1

(***************************************************************************)
(* Folder names.  A parent_dir is kept as its first 15 characters (head,   *)
(* the place of the prefix "Archive_Beam_<line>_"), the number of          *)
(* bytes after them (tail_len), whether byte offset 10 of that tail falls  *)
(* inside a multi-byte character (split) and, when the first 10 bytes of   *)
(* the tail have the digit shape of %Y-%m-%d, their three numbers (ymd).   *)
(***************************************************************************)
Prefix(line) == IF line = "A" THEN "Archive_Beam_A_" ELSE "Archive_Beam_B_"

DatedDir(line, z) ==
    [head |-> Prefix(line), tail_len |-> 10, split |-> FALSE,
     ymd |-> <<Civil(z).year, Civil(z).month, Civil(z).day>>]

\* NaiveDate::parse_from_str(.., "%Y-%m-%d").ok()
ParseDate(ymd) ==
    IF ymd = <<>> THEN None ELSE FromYmdOpt(ymd[1], ymd[2], ymd[3])

\* NaiveDate::parse_from_str(&date_str[0..10], "%Y-%m-%d").ok(): the slice
\* panics when byte 10 of date_str is not a character boundary
DateSlice(dir) ==
    IF dir.split THEN Panic ELSE ParseDate(dir.ymd)

(***************************************************************************)
(* gap_analysis.rs                                                         *)
(***************************************************************************)
\* the closure of filter_map in find_gaps: the date of one record's folder
GapDateOf(f, line) ==
    IF f.parent_dir.head = Prefix(line)
    THEN IF f.parent_dir.tail_len >= 10
         THEN DateSlice(f.parent_dir)
         ELSE None
    ELSE None

\* files.iter().filter_map(..).collect()
RECURSIVE GapDates(_, _)
GapDates(fs, line) ==
    IF fs = <<>> THEN <<>>
    ELSE LET o == GapDateOf(Head(fs), line)
         IN  (IF IsSome(o) THEN <<Unwrap(o)>> ELSE <<>>) \o GapDates(Tail(fs), line)

\* the unwinding out of filter_map: the slice of some record's folder name panics
GapPanics(fs, line) == \E i \in 1..Len(fs) : GapDateOf(fs[i], line) = Panic

\* insertion of x into an ascending sequence, after its equals
RECURSIVE InsertAsc(_, _)
InsertAsc(s, x) ==
    IF s = <<>> THEN <<x>>
    ELSE IF x < Head(s) THEN <<x>> \o s
    ELSE <<Head(s)>> \o InsertAsc(Tail(s), x)

\* dates.sort()
RECURSIVE SortAsc(_)
SortAsc(s) ==
    IF s = <<>> THEN <<>>
    ELSE InsertAsc(SortAsc(SubSeq(s, 1, Len(s) - 1)), s[Len(s)])

\* dates.dedup(): consecutive equal elements collapse to the first
RECURSIVE Dedup(_)
Dedup(s) ==
    IF Len(s) <= 1 THEN s
    ELSE IF s[1] = s[2] THEN Dedup(Tail(s))
    ELSE <<s[1]>> \o Dedup(Tail(s))

SeqRange(s) == {s[i] : i \in 1..Len(s)}

GapStep_FlagsObserved(existing, acc, curr) ==
    IF NumberFromMonday(curr) <= 5
    THEN [acc EXCEPT !.missing_weekdays = Append(@, curr)]
    ELSE [acc EXCEPT !.skipped_weekends = @ + 1]

GapStep_SaturdayWorks(existing, acc, curr) ==
    IF curr \notin existing
    THEN IF NumberFromMonday(curr) <= 6
         THEN [acc EXCEPT !.missing_weekdays = Append(@, curr)]
         ELSE [acc EXCEPT !.skipped_weekends = @ + 1]
    ELSE acc

\* one turn of the `while curr < end` loop
GapStep(existing, acc, curr) ==
    IF curr \notin existing
    THEN IF NumberFromMonday(curr) <= 5
         THEN [acc EXCEPT !.missing_weekdays = Append(@, curr)]
         ELSE [acc EXCEPT !.skipped_weekends = @ + 1]
    ELSE acc

\* the `while curr < end` loop of find_gaps
RECURSIVE GapWalk(_, _, _, _)
GapWalk(curr, end, existing, acc) ==
    IF curr < end
    THEN GapWalk(curr + 1, end, existing, GapStep(existing, acc, curr))
    ELSE acc

find_gaps(fs, line) ==
    LET dates == Dedup(SortAsc(GapDates(fs, line)))
    IN  IF dates = <<>>
        THEN [start_date |-> 0, end_date |-> 0, missing_weekdays |-> <<>>,
              skipped_weekends |-> 0, is_empty |-> TRUE]
        ELSE LET start == dates[1]
                 end   == dates[Len(dates)]
                 acc   == GapWalk(start, end, SeqRange(dates),
                                  [missing_weekdays |-> <<>>, skipped_weekends |-> 0])
             IN  [start_date |-> start, end_date |-> end,
                  missing_weekdays |-> acc.missing_weekdays,
                  skipped_weekends |-> acc.skipped_weekends, is_empty |-> FALSE]

(***************************************************************************)
(* scanner.rs: is_zip_valid.  A file is len bytes, all 0x00 except the     *)
(* bytes pat written at offset off.                                        *)
(***************************************************************************)
EocdMinSize == 22
MaxCommentLen == 65535

\* signature = [0x50, 0x4b, 0x05, 0x06]
Signature == <<80, 75, 5, 6>>

ByteAt(f, p) ==
    IF p >= f.off /\ p < f.off + Len(f.pat) THEN f.pat[p - f.off + 1] ELSE 0

\* buffer[i] after seek(SeekFrom::End(-search_len)) and read_to_end
BufferAt(f, search_len, i) == ByteAt(f, f.len - search_len + i)

\* std::cmp::min(len, 65535 + 22)
SearchLen(len) == Min(len, MaxCommentLen + 22)

SaturatingSub3_OffByOne(n) == IF n >= 4 THEN n - 4 ELSE 0

\* buffer.len().saturating_sub(3)
SaturatingSub3(n) == IF n >= 3 THEN n - 3 ELSE 0

\* the body of the `for i in (0..buffer.len().saturating_sub(3)).rev()` loop
SignatureAt(f, search_len, i) ==
    /\ BufferAt(f, search_len, i) = Signature[1]
    /\ BufferAt(f, search_len, i + 1) = Signature[2]
    /\ BufferAt(f, search_len, i + 2) = Signature[3]
    /\ BufferAt(f, search_len, i + 3) = Signature[4]

is_zip_valid(f, io) ==
    IF io = "open" THEN <<FALSE, Some("Cannot open file")>>
    ELSE IF io = "metadata" THEN <<FALSE, Some("Cannot read file metadata")>>
    ELSE IF f.len < EocdMinSize THEN <<FALSE, Some("File too small")>>
    ELSE IF io = "seek" THEN <<FALSE, Some("Cannot seek to end of file")>>
    ELSE IF io = "read" THEN <<FALSE, Some("Cannot read file contents")>>
    ELSE IF \E i \in 0 .. (SaturatingSub3(SearchLen(f.len)) - 1) :
                SignatureAt(f, SearchLen(f.len), i)
         THEN <<TRUE, None>>
         ELSE <<FALSE, Some("Missing ZIP signature")>>

(***************************************************************************)
(* scanner.rs: scan_files.  An item of the walk is what WalkDir hands out  *)
(* for one path: walk_ok is FALSE when the item is an Err; a file name is  *)
(* its stem and its Option<extension>, the extension a sequence of bytes.  *)
(***************************************************************************)
\* u8::to_ascii_lowercase
ToAsciiLowercase(b) == IF b \in 65..90 THEN b + 32 ELSE b

\* OsStr::eq_ignore_ascii_case
EqIgnoreAsciiCase(a, b) ==
    /\ Len(a) = Len(b)
    /\ \A i \in 1..Len(a) : ToAsciiLowercase(a[i]) = ToAsciiLowercase(b[i])

\* "zip"
ZipExt == <<122, 105, 112>>

\* the filter of the walk: a regular file with the extension zip
IsZipEntry(e) ==
    /\ e.is_file
    /\ IsSome(e.name.ext)
    /\ EqIgnoreAsciiCase(Unwrap(e.name.ext), ZipExt)

\* entry.metadata().unwrap_or_else(|_| std::fs::metadata(p).unwrap()) panics
\* when both calls fail
MetadataPanics(e) == ~e.metadata_ok /\ ~e.fs_metadata_ok

\* the FileEntry of one walked file
FileEntryOf(e) ==
    LET verdict == is_zip_valid(e.content, e.io)
    IN  [name |-> e.name, size |-> e.content.len, is_valid |-> verdict[1],
         invalid_reason |-> verdict[2], parent_dir |-> e.parent]

\* scan_files(path), WalkDir handing out the items in the order `walk`
scan_files(walk) ==
    LET entries == SelectSeq(SelectSeq(walk, LAMBDA e : e.walk_ok), IsZipEntry)
    IN  IF \E i \in 1..Len(entries) : MetadataPanics(entries[i])
        THEN Panic
        ELSE Some([i \in 1..Len(entries) |-> FileEntryOf(entries[i])])

(***************************************************************************)
(* f64 arithmetic of ranking.rs, kept exact: a score is the rational n/d   *)
(* in lowest terms with d > 0, so that equal scores are equal records.     *)
(***************************************************************************)
RECURSIVE Gcd(_, _)
Gcd(a, b) == IF b = 0 THEN a ELSE Gcd(b, a % b)

Abs(x) == IF x < 0 THEN 0 - x ELSE x

Rat(n, d) ==
    LET g == Gcd(Abs(n), Abs(d))
        s == IF d < 0 THEN 0 - 1 ELSE 1
    IN  [n |-> (s * n) \div g, d |-> (s * d) \div g]

AsF64(i) == [n |-> i, d |-> 1]
RatAdd(a, b) == Rat(a.n * b.d + b.n * a.d, a.d * b.d)
RatSub(a, b) == Rat(a.n * b.d - b.n * a.d, a.d * b.d)
RatMul(a, b) == Rat(a.n * b.n, a.d * b.d)
RatDiv(a, b) == Rat(a.n * b.d, a.d * b.n)
RatLt(a, b) == a.n * b.d < b.n * a.d
RatLe(a, b) == a.n * b.d <= b.n * a.d
\* f64::max and f64::min
RatMax(a, b) == IF RatLt(a, b) THEN b ELSE a
RatMin(a, b) == IF RatLt(b, a) THEN b ELSE a

(***************************************************************************)
(* ranking.rs                                                              *)
(***************************************************************************)
Penalty_InvalidAsEmpty(m) ==
    m.missing_days * 10 + m.invalid_files + m.anomaly_count * 2 + m.empty_files

\* the weighted penalty of calculate_health_score
Penalty(m) ==
    m.missing_days * 10 + m.invalid_files * 3 + m.anomaly_count * 2 + m.empty_files

Clamp_Unclamped(score) == score

\* score.max(0.0).min(100.0)
Clamp(score) == RatMin(RatMax(score, AsF64(0)), AsF64(100))

calculate_health_score(m) ==
    IF m.expected_weekdays = 0 THEN AsF64(0)
    ELSE LET penalty     == AsF64(Penalty(m))
             max_penalty == AsF64(m.expected_weekdays * 10)
             score       == RatMul(AsF64(100),
                                   RatSub(AsF64(1), RatDiv(penalty, max_penalty)))
         IN  Clamp(score)

extract_date_from_dir_ExactLength(dir, line) ==
    IF dir.head = Prefix(line)
    THEN IF dir.tail_len = 10
         THEN DateSlice(dir)
         ELSE None
    ELSE None

\* extract_date_from_dir(parent_dir, line_id)
extract_date_from_dir(dir, line) ==
    IF dir.head = Prefix(line)
    THEN IF dir.tail_len >= 10
         THEN DateSlice(dir)
         ELSE None
    ELSE None

\* the unwinding out of the grouping loops: the slice of a record's folder name
\* or of an anomaly's day name panics
RankPanics(fs, anom, line) ==
    \/ \E i \in 1..Len(fs) : extract_date_from_dir(fs[i].parent_dir, line) = Panic
    \/ /\ IsSome(anom)
       /\ \E i \in 1..Len(Unwrap(anom).anomalies) :
             extract_date_from_dir(Unwrap(anom).anomalies[i].name, line) = Panic

\* (date.year(), date.month())
MonthKey(date) == LET c == Civil(date) IN <<c.year, c.month>>

\* last day of the month: the day before the first of the next month
MonthEnd(year, month) ==
    IF month = 12 THEN FromYmd(year + 1, 1, 1) - 1
    ELSE FromYmd(year, month + 1, 1) - 1

\* the `while curr <= effective_end` loop of count_expected_weekdays_in_month
RECURSIVE CountWeekdays(_, _, _)
CountWeekdays(curr, effective_end, count) ==
    IF curr <= effective_end
    THEN CountWeekdays(curr + 1, effective_end,
                       IF NumberFromMonday(curr) <= 5 THEN count + 1 ELSE count)
    ELSE count

count_expected_weekdays_in_month_NoToday(year, month, range_start, range_end, now) ==
    LET month_start     == FromYmd(year, month, 1)
        month_end       == MonthEnd(year, month)
        effective_start == Max(month_start, range_start)
        effective_end   == Min(month_end, range_end)
    IN  IF effective_start > effective_end THEN 0
        ELSE CountWeekdays(effective_start, effective_end, 0)

count_expected_weekdays_in_month(year, month, range_start, range_end, now) ==
    LET month_start     == FromYmd(year, month, 1)
        month_end       == MonthEnd(year, month)
        effective_start == Max(month_start, range_start)
        effective_end   == Min(Min(month_end, range_end), now)
    IN  IF effective_start > effective_end THEN 0
        ELSE CountWeekdays(effective_start, effective_end, 0)

\* file_counts of find_always_empty_files: name -> (total, empty)
RECURSIVE FileCounts(_, _)
FileCounts(fs, tiny) ==
    IF fs = <<>> THEN <<>>
    ELSE LET rest == FileCounts(SubSeq(fs, 1, Len(fs) - 1), tiny)
             f    == fs[Len(fs)]
             e    == IF f.size < tiny THEN 1 ELSE 0
         IN  IF f.name \in DOMAIN rest
             THEN [rest EXCEPT ![f.name] = <<@[1] + 1, @[2] + e>>]
             ELSE (f.name :> <<1, e>>) @@ rest

find_always_empty_files(fs, tiny) ==
    LET file_counts == FileCounts(fs, tiny)
    IN  {name \in DOMAIN file_counts :
            file_counts[name][1] = file_counts[name][2] /\ file_counts[name][1] > 0}

\* monthly_files[key]: the records whose folder date lies in the month
MonthlyFiles(fs, line, key) ==
    SelectSeq(fs, LAMBDA f : /\ IsSome(extract_date_from_dir(f.parent_dir, line))
                             /\ MonthKey(Unwrap(extract_date_from_dir(f.parent_dir, line))) = key)

\* monthly_files.keys()
MonthlyFileKeys(fs, line) ==
    {MonthKey(Unwrap(extract_date_from_dir(fs[i].parent_dir, line))) :
        i \in {j \in 1..Len(fs) : IsSome(extract_date_from_dir(fs[j].parent_dir, line))}}

\* monthly_archive_dates[key]
MonthlyArchiveDates(fs, line, key) ==
    {Unwrap(extract_date_from_dir(f.parent_dir, line)) : f \in SeqRange(MonthlyFiles(fs, line, key))}

\* missing_by_month[key], 0 when the key is absent
MissingByMonth(gap, key) ==
    IF IsSome(gap)
    THEN Len(SelectSeq(Unwrap(gap).missing_weekdays, LAMBDA d : MonthKey(d) = key))
    ELSE 0

\* missing_by_month.keys()
MissingKeys(gap) ==
    IF IsSome(gap) THEN {MonthKey(d) : d \in SeqRange(Unwrap(gap).missing_weekdays)} ELSE {}

AnomaliesByMonth_AnyName(anom, line, key) ==
    IF IsSome(anom) THEN Len(Unwrap(anom).anomalies) ELSE 0

\* anomalies_by_month[key], 0 when the key is absent
AnomaliesByMonth(anom, line, key) ==
    IF IsSome(anom)
    THEN Len(SelectSeq(Unwrap(anom).anomalies,
                LAMBDA a : /\ IsSome(extract_date_from_dir(a.name, line))
                           /\ MonthKey(Unwrap(extract_date_from_dir(a.name, line))) = key))
    ELSE 0

AllMonths_FilesOnly(fs, gap, line) == MonthlyFileKeys(fs, line)

\* all_months: the months that have any data
AllMonths(fs, gap, line) == MonthlyFileKeys(fs, line) \cup MissingKeys(gap)

EmptyFilesIn_CountAll(in_month, always_empty, tiny) ==
    Len(SelectSeq(in_month, LAMBDA e : e.size < tiny))

\* empty_files of one month
EmptyFilesIn(in_month, always_empty, tiny) ==
    Len(SelectSeq(in_month, LAMBDA e : e.size < tiny /\ e.name \notin always_empty))

\* the closure of filter_map in calculate_monthly_rankings: one month's metrics
MonthMetrics(key, fs, gap, anom, line, range_start, range_end, tiny, now) ==
    LET year  == key[1]
        month == key[2]
        expected_weekdays ==
            count_expected_weekdays_in_month(year, month, range_start, range_end, now)
        in_month == MonthlyFiles(fs, line, key)
        m == [year |-> year, month |-> month,
              missing_days |-> MissingByMonth(gap, key),
              anomaly_count |-> AnomaliesByMonth(anom, line, key),
              invalid_files |-> Len(SelectSeq(in_month, LAMBDA e : ~e.is_valid)),
              empty_files |-> EmptyFilesIn(in_month, find_always_empty_files(fs, tiny), tiny),
              expected_weekdays |-> expected_weekdays,
              actual_archives |-> Cardinality(MonthlyArchiveDates(fs, line, key)),
              health_score |-> AsF64(0),
              is_complete |-> now > MonthEnd(year, month)]
    IN  IF expected_weekdays = 0 THEN None
        ELSE Some([m EXCEPT !.health_score = calculate_health_score(m)])

\* the metrics filter_map keeps: those of the months of all_months with
\* expected weekdays
ProducedMonths(fs, gap, anom, line, range_start, range_end, tiny, now) ==
    UNION { LET o == MonthMetrics(key, fs, gap, anom, line, range_start, range_end, tiny, now)
            IN  IF IsSome(o) THEN {Unwrap(o)} ELSE {}
            : key \in AllMonths(fs, gap, line) }

\* insertion of x into months ordered by health_score descending, after its equals
RECURSIVE InsertMonth(_, _)
InsertMonth(s, x) ==
    IF s = <<>> THEN <<x>>
    ELSE IF RatLt(Head(s).health_score, x.health_score) THEN <<x>> \o s
    ELSE <<Head(s)>> \o InsertMonth(Tail(s), x)

\* months.sort_by(|a, b| b.health_score.partial_cmp(&a.health_score)): stable, best first
RECURSIVE SortMonths(_)
SortMonths(s) ==
    IF s = <<>> THEN <<>>
    ELSE InsertMonth(SortMonths(SubSeq(s, 1, Len(s) - 1)), s[Len(s)])

First(s) == IF s = <<>> THEN None ELSE Some(s[1])
Last(s) == IF s = <<>> THEN None ELSE Some(s[Len(s)])

BestWorstMonths_IgnoreComplete(months) == <<First(months), Last(months)>>

\* best and worst month: among the complete months if any, else among all
BestWorstMonths(months) ==
    LET complete_months == SelectSeq(months, LAMBDA m : m.is_complete)
    IN  IF complete_months = <<>> THEN <<First(months), Last(months)>>
        ELSE <<First(complete_months), Last(complete_months)>>

\* months.iter().map(|m| m.health_score).sum::<f64>()
RECURSIVE SumScores(_)
SumScores(s) ==
    IF s = <<>> THEN AsF64(0) ELSE RatAdd(Head(s).health_score, SumScores(Tail(s)))

\* the orders in which a HashSet may hand out its elements
Orders(S) == {o \in [1..Cardinality(S) -> S] : \A i, j \in DOMAIN o : i # j => o[i] # o[j]}

RankingReportOf_Unsorted(collected, line) ==
    LET months == collected
        bw     == BestWorstMonths(months)
    IN  [months |-> months, best_month |-> bw[1], worst_month |-> bw[2],
         average_score |-> IF months = <<>> THEN AsF64(0)
                           ELSE RatDiv(SumScores(months), AsF64(Len(months))),
         line_id |-> line]

\* the rest of calculate_monthly_rankings, from the sort on
RankingReportOf(collected, line) ==
    LET months == SortMonths(collected)
        bw     == BestWorstMonths(months)
    IN  [months |-> months, best_month |-> bw[1], worst_month |-> bw[2],
         average_score |-> IF months = <<>> THEN AsF64(0)
                           ELSE RatDiv(SumScores(months), AsF64(Len(months))),
         line_id |-> line]

\* line_a_map / line_b_map: (year, month) -> &MonthlyMetrics; collecting into a
\* HashMap keeps the last entry of a key
MonthMap(months) ==
    [key \in {<<months[i].year, months[i].month>> : i \in 1..Len(months)} |->
        LET last == CHOOSE i \in 1..Len(months) :
                        /\ <<months[i].year, months[i].month>> = key
                        /\ \A j \in (i + 1)..Len(months) :
                              <<months[j].year, months[j].month>> # key
        IN  months[last]]

\* map.get(&(year, month)).copied().cloned()
MapGet(map, key) == IF key \in DOMAIN map THEN Some(map[key]) ELSE None

CombinedScore_ZeroFilled(a_score, b_score) ==
    RatDiv(RatAdd(IF IsSome(a_score) THEN Unwrap(a_score) ELSE AsF64(0),
                  IF IsSome(b_score) THEN Unwrap(b_score) ELSE AsF64(0)), AsF64(2))

\* combined score: the average of the available scores
CombinedScore(a_score, b_score) ==
    IF IsSome(a_score) /\ IsSome(b_score)
    THEN RatDiv(RatAdd(Unwrap(a_score), Unwrap(b_score)), AsF64(2))
    ELSE IF IsSome(a_score) THEN Unwrap(a_score)
    ELSE IF IsSome(b_score) THEN Unwrap(b_score)
    ELSE AsF64(0)

\* the closure of map in combine_rankings: one month's combined metrics
CombinedMetrics(key, line_a_map, line_b_map) ==
    LET a_metrics == MapGet(line_a_map, key)
        b_metrics == MapGet(line_b_map, key)
        a_score   == IF IsSome(a_metrics) THEN Some(Unwrap(a_metrics).health_score) ELSE None
        b_score   == IF IsSome(b_metrics) THEN Some(Unwrap(b_metrics).health_score) ELSE None
    IN  [year |-> key[1], month |-> key[2],
         line_a_score |-> a_score, line_b_score |-> b_score,
         combined_score |-> CombinedScore(a_score, b_score),
         line_a_metrics |-> a_metrics, line_b_metrics |-> b_metrics]

\* the combined metrics of all_months, the union of the two key sets
CombinedMonths(a, b) ==
    LET line_a_map == MonthMap(a.months)
        line_b_map == MonthMap(b.months)
    IN  {CombinedMetrics(key, line_a_map, line_b_map) :
            key \in DOMAIN line_a_map \cup DOMAIN line_b_map}

\* insertion of x into months ordered by combined_score descending, after its equals
RECURSIVE InsertCombined(_, _)
InsertCombined(s, x) ==
    IF s = <<>> THEN <<x>>
    ELSE IF RatLt(Head(s).combined_score, x.combined_score) THEN <<x>> \o s
    ELSE <<Head(s)>> \o InsertCombined(Tail(s), x)

\* months.sort_by(|a, b| b.combined_score.partial_cmp(&a.combined_score))
RECURSIVE SortCombined(_)
SortCombined(s) ==
    IF s = <<>> THEN <<>>
    ELSE InsertCombined(SortCombined(SubSeq(s, 1, Len(s) - 1)), s[Len(s)])

BestWorstCombined_IgnoreBothLines(months) == <<First(months), Last(months)>>

\* best and worst: among the months with data from both lines if any, else among all
BestWorstCombined(months) ==
    LET both_lines == SelectSeq(months,
                          LAMBDA m : IsSome(m.line_a_score) /\ IsSome(m.line_b_score))
    IN  IF both_lines = <<>> THEN <<First(months), Last(months)>>
        ELSE <<First(both_lines), Last(both_lines)>>

\* the rest of combine_rankings, from the sort on
CombinedReportOf(collected, a, b) ==
    LET months == SortCombined(collected)
        bw     == BestWorstCombined(months)
    IN  [months |-> months, best_month |-> bw[1], worst_month |-> bw[2],
         line_a_average |-> a.average_score,
         line_b_average |-> b.average_score,
         combined_average |-> RatDiv(RatAdd(a.average_score, b.average_score), AsF64(2))]

(***************************************************************************)
(* stats.rs: calculate_anomalies.  A day identifier (String) is the        *)
(* sequence of its bytes; Strings are ordered byte by byte, a proper       *)
(* prefix before its extensions.                                           *)
(***************************************************************************)
\* Ord for String
RECURSIVE StrLess(_, _)
StrLess(a, b) ==
    IF b = <<>> THEN FALSE
    ELSE IF a = <<>> THEN TRUE
    ELSE IF Head(a) # Head(b) THEN Head(a) < Head(b)
    ELSE StrLess(Tail(a), Tail(b))

\* insertion of a key into a sequence of keys sorted by sort_by_key
RECURSIVE InsertKey(_, _)
InsertKey(s, k) ==
    IF s = <<>> THEN <<k>>
    ELSE IF StrLess(k, Head(s)) THEN <<k>> \o s
    ELSE <<Head(s)>> \o InsertKey(Tail(s), k)

\* sorted_dirs.sort_by_key(|k| k.0.clone())
RECURSIVE SortKeys(_)
SortKeys(s) ==
    IF s = <<>> THEN <<>>
    ELSE InsertKey(SortKeys(SubSeq(s, 1, Len(s) - 1)), s[Len(s)])

\* the median of an ascending Vec<u64>; u64::midpoint rounds down
MedianU64(sizes) ==
    LET count == Len(sizes)
    IN  IF count % 2 = 1
        THEN sizes[(count \div 2) + 1]
        ELSE (sizes[count \div 2] + sizes[(count \div 2) + 1]) \div 2

HighFactor == Rat(6, 5)

Category_Inclusive(size, median, low) ==
    IF RatLe(AsF64(size), RatMul(AsF64(median), low)) THEN "Too Small"
    ELSE IF RatLt(RatMul(AsF64(median), HighFactor), AsF64(size)) THEN "Too Large"
    ELSE "None"

\* the if / else if of the loop over sorted_dirs; "None" when nothing is pushed
Category(size, median, low) ==
    IF RatLt(AsF64(size), RatMul(AsF64(median), low)) THEN "Too Small"
    ELSE IF RatLt(RatMul(AsF64(median), HighFactor), AsF64(size)) THEN "Too Large"
    ELSE "None"

\* the loop over sorted_dirs
RECURSIVE AnomaliesOf(_, _, _, _)
AnomaliesOf(sorted_dirs, d, median, low) ==
    IF sorted_dirs = <<>> THEN <<>>
    ELSE LET name == Head(sorted_dirs)
             cat  == Category(d[name], median, low)
         IN  (IF cat = "None" THEN <<>>
              ELSE <<[name |-> name, size |-> d[name], category |-> cat]>>)
             \o AnomaliesOf(Tail(sorted_dirs), d, median, low)

\* calculate_anomalies(dirs, threshold), the HashMap handing out its entries in
\* the order `order`
calculate_anomalies(d, order, low) ==
    LET sizes == SortAsc([i \in 1..Len(order) |-> d[order[i]]])
    IN  IF sizes = <<>> THEN None
        ELSE LET median == MedianU64(sizes)
             IN  Some([median_daily_size |-> median,
                       anomalies |-> AnomaliesOf(SortKeys(order), d, median, low)])

(***************************************************************************)
(* stats.rs: calculate_integrity_stats.  A size `as f64` is the integer    *)
(* itself; a standard deviation, the square root of a rational, is kept as *)
(* [lo, hi]: the midpoint of the square roots of lo and of hi (lo = hi for *)
(* the deviation of one group).                                            *)
(***************************************************************************)
\* entries = groups.get(&name): the records of the name, in input order
GroupOf(fs, name) == SelectSeq(fs, LAMBDA f : f.name = name)

EmptyCount_AtThreshold(entries, tiny) == Len(SelectSeq(entries, LAMBDA f : f.size <= tiny))

\* entries.iter().filter(|e| e.size < tiny_threshold).count()
EmptyCount(entries, tiny) == Len(SelectSeq(entries, LAMBDA f : f.size < tiny))

\* entries.iter().filter(|e| !e.is_valid).count()
BadCount(entries) == Len(SelectSeq(entries, LAMBDA f : ~f.is_valid))

\* the sizes at or above the threshold, sorted
SizesOf(entries, tiny) ==
    LET kept == SelectSeq(entries, LAMBDA f : f.size >= tiny)
    IN  SortAsc([i \in 1..Len(kept) |-> kept[i].size])

RECURSIVE SumSeq(_)
SumSeq(s) == IF s = <<>> THEN 0 ELSE Head(s) + SumSeq(Tail(s))

RECURSIVE SumRats(_)
SumRats(s) == IF s = <<>> THEN AsF64(0) ELSE RatAdd(Head(s), SumRats(Tail(s)))

\* f64::midpoint
MidpointF64(a, b) == RatDiv(RatAdd(a, b), AsF64(2))

MedianF64_UpperMiddle(sizes) ==
    AsF64(sizes[(Len(sizes) \div 2) + 1])

\* the median of the sorted sizes of one group
MedianF64(sizes) ==
    LET count == Len(sizes)
    IN  IF count % 2 = 1
        THEN AsF64(sizes[(count \div 2) + 1])
        ELSE MidpointF64(AsF64(sizes[count \div 2]), AsF64(sizes[(count \div 2) + 1]))

\* sizes.iter().map(|s| (s - mean).powi(2)).sum::<f64>() / count as f64
VarianceOf(sizes) ==
    LET count == Len(sizes)
        mean  == RatDiv(AsF64(SumSeq(sizes)), AsF64(count))
        sq    == [i \in 1..count |-> RatMul(RatSub(AsF64(sizes[i]), mean),
                                            RatSub(AsF64(sizes[i]), mean))]
    IN  RatDiv(SumRats(sq), AsF64(count))

\* variance.sqrt()
Sqrt(variance) == [lo |-> variance, hi |-> variance]

\* `as u64` of a non-negative f64: the fraction is dropped
AsU64(x) == x.n \div x.d

IntegrityRowOf_ValidWhenAny(name, entries, tiny) ==
    LET sizes == SizesOf(entries, tiny)
    IN  [name |-> name, total |-> Len(entries), empty |-> EmptyCount(entries, tiny),
         bad |-> BadCount(entries),
         min_size |-> IF sizes = <<>> THEN 0 ELSE sizes[1],
         max_size |-> IF sizes = <<>> THEN 0 ELSE sizes[Len(sizes)],
         median_size |-> IF sizes = <<>> THEN 0 ELSE AsU64(MedianF64(sizes)),
         std_dev |-> IF sizes = <<>> THEN Sqrt(AsF64(0)) ELSE Sqrt(VarianceOf(sizes)),
         valid_stats |-> entries # <<>>]

\* the IntegrityRow of one name
IntegrityRowOf(name, entries, tiny) ==
    LET sizes == SizesOf(entries, tiny)
    IN  IF sizes = <<>>
        THEN [name |-> name, total |-> Len(entries), empty |-> EmptyCount(entries, tiny),
              bad |-> BadCount(entries), min_size |-> 0, max_size |-> 0,
              median_size |-> 0, std_dev |-> Sqrt(AsF64(0)), valid_stats |-> FALSE]
        ELSE [name |-> name, total |-> Len(entries), empty |-> EmptyCount(entries, tiny),
              bad |-> BadCount(entries), min_size |-> sizes[1],
              max_size |-> sizes[Len(sizes)],
              median_size |-> AsU64(MedianF64(sizes)),
              std_dev |-> Sqrt(VarianceOf(sizes)), valid_stats |-> TRUE]

\* one turn of `for name in sorted_keys`; grand_min = <<>> stands for u64::MAX
StatsStep(acc, name, fs, tiny) ==
    LET entries == GroupOf(fs, name)
        sizes   == SizesOf(entries, tiny)
        row     == IntegrityRowOf(name, entries, tiny)
        counted == [acc EXCEPT !.rows = Append(@, row),
                               !.grand_total = @ + row.total,
                               !.grand_empty = @ + row.empty,
                               !.grand_bad = @ + row.bad]
    IN  IF sizes = <<>> THEN counted
        ELSE [counted EXCEPT
                !.grand_min = IF @ = <<>> \/ sizes[1] < Unwrap(@) THEN Some(sizes[1]) ELSE @,
                !.grand_max = IF sizes[Len(sizes)] > @ THEN sizes[Len(sizes)] ELSE @,
                !.all_medians = Append(@, MedianF64(sizes)),
                !.all_stddevs = Append(@, Sqrt(VarianceOf(sizes))),
                !.valid_groups = @ + 1]

\* for name in sorted_keys
RECURSIVE StatsLoop(_, _, _, _)
StatsLoop(acc, sorted_keys, fs, tiny) ==
    IF sorted_keys = <<>> THEN acc
    ELSE StatsLoop(StatsStep(acc, Head(sorted_keys), fs, tiny), Tail(sorted_keys), fs, tiny)

\* insertion of x into a sequence of f64 sorted by partial_cmp
RECURSIVE InsertF64(_, _)
InsertF64(s, x) ==
    IF s = <<>> THEN <<x>>
    ELSE IF RatLt(x, Head(s)) THEN <<x>> \o s
    ELSE <<Head(s)>> \o InsertF64(Tail(s), x)

\* all_medians.sort_by(|a, b| a.partial_cmp(b).unwrap())
RECURSIVE SortF64(_)
SortF64(s) ==
    IF s = <<>> THEN <<>>
    ELSE InsertF64(SortF64(SubSeq(s, 1, Len(s) - 1)), s[Len(s)])

\* insertion into the sorted standard deviations: square roots compare as their squares
RECURSIVE InsertStdDev(_, _)
InsertStdDev(s, x) ==
    IF s = <<>> THEN <<x>>
    ELSE IF RatLt(x.lo, Head(s).lo) THEN <<x>> \o s
    ELSE <<Head(s)>> \o InsertStdDev(Tail(s), x)

\* all_stddevs.sort_by(|a, b| a.partial_cmp(b).unwrap())
RECURSIVE SortStdDev(_)
SortStdDev(s) ==
    IF s = <<>> THEN <<>>
    ELSE InsertStdDev(SortStdDev(SubSeq(s, 1, Len(s) - 1)), s[Len(s)])

GrandMedian_OfRowMedians(all_medians, valid_groups) ==
    IF valid_groups > 0
    THEN LET t == [i \in 1..Len(all_medians) |-> AsF64(AsU64(all_medians[i]))]
             m == SortF64(t)
         IN  AsU64(IF valid_groups % 2 = 1 THEN m[(valid_groups \div 2) + 1]
                   ELSE MidpointF64(m[valid_groups \div 2], m[(valid_groups \div 2) + 1]))
    ELSE 0

\* gm as u64, or 0 without a valid group
GrandMedian(all_medians, valid_groups) ==
    IF valid_groups > 0
    THEN LET m == SortF64(all_medians)
         IN  AsU64(IF valid_groups % 2 = 1 THEN m[(valid_groups \div 2) + 1]
                   ELSE MidpointF64(m[valid_groups \div 2], m[(valid_groups \div 2) + 1]))
    ELSE 0

\* gsd, or 0.0 without a valid group
GrandStdDev(all_stddevs, valid_groups) ==
    IF valid_groups > 0
    THEN LET d == SortStdDev(all_stddevs)
         IN  IF valid_groups % 2 = 1 THEN d[(valid_groups \div 2) + 1]
             ELSE [lo |-> d[valid_groups \div 2].lo, hi |-> d[(valid_groups \div 2) + 1].hi]
    ELSE Sqrt(AsF64(0))

\* calculate_integrity_stats(files, tiny_threshold), the HashMap groups handing
\* out its keys in the order `keys`
calculate_integrity_stats(fs, keys, tiny) ==
    IF fs = <<>> THEN None
    ELSE LET acc == StatsLoop([rows |-> <<>>, grand_total |-> 0, grand_empty |-> 0,
                               grand_bad |-> 0, grand_min |-> <<>>, grand_max |-> 0,
                               all_medians |-> <<>>, all_stddevs |-> <<>>,
                               valid_groups |-> 0],
                              SortKeys(keys), fs, tiny)
         IN  Some([rows |-> acc.rows,
                   grand_total |-> acc.grand_total,
                   grand_empty |-> acc.grand_empty,
                   grand_bad |-> acc.grand_bad,
                   grand_min |-> IF acc.grand_min = <<>> THEN 0 ELSE Unwrap(acc.grand_min),
                   grand_max |-> acc.grand_max,
                   grand_median |-> GrandMedian(acc.all_medians, acc.valid_groups),
                   grand_std_dev |-> GrandStdDev(acc.all_stddevs, acc.valid_groups)])

(***************************************************************************)
(* Inputs of the gap analyzer                                              *)
(***************************************************************************)
TinyThreshold == 1000

MaxGapFiles == 3
GapSpan == 7
\* 2024-09-26, a Thursday: the window runs over a weekend and a month end
GapBase == FromYmd(2024, 9, 26)
GapWindow == GapBase .. (GapBase + GapSpan - 1)

MalformedDirs ==
    { [head |-> "SomeOtherDir", tail_len |-> 0, split |-> FALSE, ymd |-> <<>>],
      [head |-> "Archive_Beam_A_", tail_len |-> 10, split |-> FALSE, ymd |-> <<2024, 2, 30>>],
      [head |-> "Archive_Beam_A_", tail_len |-> 7, split |-> FALSE, ymd |-> <<>>] }

\* "Archive_Beam_A_2024-09-27_retry": a date followed by more characters
SuffixedDir == [DatedDir("A", GapBase + 1) EXCEPT !.tail_len = 16]

\* "Archive_Beam_A_2024-09-2\u{e9}": the two-byte character holds bytes 9 and 10
SplitDir == [head |-> "Archive_Beam_A_", tail_len |-> 11, split |-> TRUE, ymd |-> <<>>]

GapDirs ==
    {DatedDir("A", z) : z \in GapWindow} \cup {DatedDir("B", GapBase + 1)}
        \cup MalformedDirs \cup {SuffixedDir, SplitDir}

Entry(name, size, valid, dir) ==
    [name |-> name, size |-> size, is_valid |-> valid, parent_dir |-> dir]

SeqsUpTo(S, n) == UNION {[1..k -> S] : k \in 0..n}

\* the variables a run does not use
FilesIdle == files = <<>> /\ line_id = "A" /\ gap_report = <<>>
ZipIdle == zip_file = [len |-> 0, off |-> 0, pat |-> <<>>] /\ zip_io = "ok" /\ zip_verdict = <<>>
ScoreIdle == metrics = <<>>
RankIdle ==
    anomaly_report = <<>> /\ start_date = 0 /\ end_date = 0 /\ today = 0 /\ ranking_report = <<>>
CombineIdle == line_a = <<>> /\ line_b = <<>> /\ combined_report = <<>>
DateIdle == dir_date = <<>>
AnomIdle == dirs = <<>> /\ threshold = [n |-> 0, d |-> 1] /\ anomalies_report = <<>>
IntegIdle == integrity_stats = <<>>
ScanIdle == tree = {} /\ scan_result = <<>>
DashIdle ==
    fsys = <<>> /\ fs_before = <<>> /\ current = <<>> /\ email_cfg = FALSE /\ thread = <<>>
AlertIdle == clock = 0 /\ alert_threshold = <<>> /\ runs = <<>>
LockIdle == lock_file = <<>> /\ dash_runs = <<>>
CopyIdle == modified = <<>> /\ current_copy_date = <<>>
LaterIdle == AlertIdle /\ LockIdle /\ CopyIdle
ExtIdle == DateIdle /\ AnomIdle /\ IntegIdle /\ ScanIdle /\ DashIdle /\ LaterIdle

InitGaps ==
    /\ pc = "ready"
    /\ files \in SeqsUpTo({Entry("dummy.zip", 0, TRUE, d) : d \in GapDirs}, MaxGapFiles)
    /\ line_id \in {"A", "B"}
    /\ gap_report = None
    /\ ZipIdle /\ ScoreIdle /\ RankIdle /\ CombineIdle /\ ExtIdle

FindGaps ==
    /\ pc = "ready"
    /\ IF GapPanics(files, line_id)
       THEN gap_report' = None /\ pc' = "panicked"
       ELSE gap_report' = Some(find_gaps(files, line_id)) /\ pc' = "done"
    /\ UNCHANGED <<files, line_id, zipVars, metrics, rankVars, combVars, extVars>>

NextGaps == FindGaps

SpecGaps == InitGaps /\ [][NextGaps]_vars

\* the dates of the folders of the line, as the claim speaks of them
ObservedDates == {Unwrap(GapDateOf(files[i], line_id)) :
                    i \in {j \in 1..Len(files) : IsSome(GapDateOf(files[j], line_id))}}

\* 2024-07-29 is a Monday (gap_analysis.rs, test_find_gaps_clean_week)
IsMondayToFriday(d) == (d - FromYmd(2024, 7, 29)) % 7 \in 0..4

\* C1: every folderless day d with start_date <= d < end_date is in
\* missing_weekdays iff it is a Monday-Friday, and skipped_weekends is the
\* number of folderless Saturdays and Sundays of that range.
C1_GapClassification ==
    (pc = "done" /\ ~Unwrap(gap_report).is_empty) =>
        LET r    == Unwrap(gap_report)
            free == {d \in r.start_date .. (r.end_date - 1) : d \notin ObservedDates}
        IN  /\ SeqRange(r.missing_weekdays) = {d \in free : IsMondayToFriday(d)}
            /\ Len(r.missing_weekdays) = Cardinality(SeqRange(r.missing_weekdays))
            /\ r.skipped_weekends = Cardinality({d \in free : ~IsMondayToFriday(d)})

\* a run that met a folderless weekday and a folderless weekend day
C1_Witness ==
    /\ pc = "done"
    /\ ~Unwrap(gap_report).is_empty
    /\ Len(Unwrap(gap_report).missing_weekdays) >= 2
    /\ Unwrap(gap_report).skipped_weekends = 2

\* C11: on a non-empty date set start_date is the earliest and end_date the
\* latest observed folder date of the line, every missing weekday lies strictly
\* between them and is not an observed date, and missing_weekdays is strictly
\* ascending.
C11_GapBounds ==
    (pc = "done" /\ ObservedDates # {}) =>
        LET r == Unwrap(gap_report)
            m == r.missing_weekdays
        IN  /\ r.start_date \in ObservedDates
            /\ r.end_date \in ObservedDates
            /\ \A d \in ObservedDates : r.start_date <= d /\ d <= r.end_date
            /\ \A i \in 1..Len(m) :
                  /\ r.start_date < m[i] /\ m[i] < r.end_date
                  /\ m[i] \notin ObservedDates
            /\ \A i \in 1..(Len(m) - 1) : m[i] < m[i + 1]

\* records out of order and with a repeated folder, at least two missing
\* weekdays between the first and the last date
C11_Witness ==
    /\ pc = "done"
    /\ Len(files) >= 3
    /\ IsSome(GapDateOf(files[1], line_id)) /\ IsSome(GapDateOf(files[2], line_id))
    /\ Unwrap(GapDateOf(files[2], line_id)) < Unwrap(GapDateOf(files[1], line_id))
    /\ files[3] = files[1]
    /\ Len(Unwrap(gap_report).missing_weekdays) >= 2

\* C12: find_gaps returns is_empty = true exactly when no record's folder
\* yields a date for the line, then with no missing weekday and no skipped
\* weekend, and it returns a report on every such input.
C12_EmptyReport ==
    pc # "ready" =>
        /\ pc = "done"
        /\ Unwrap(gap_report).is_empty <=> ObservedDates = {}
        /\ Unwrap(gap_report).is_empty =>
              /\ Unwrap(gap_report).missing_weekdays = <<>>
              /\ Unwrap(gap_report).skipped_weekends = 0

(***************************************************************************)
(* Inputs of the validity checker                                          *)
(***************************************************************************)
MaxJunk == 2
ZipSlack == 3

\* the signature and its near misses
ZipCores == { Signature, <<80, 75, 5>>, <<80, 75, 5, 5>>, <<>> }

\* look-alike bytes before and after: the first bytes of the signature
ZipJunk == {SubSeq(Signature, 1, k) : k \in 0..MaxJunk}

ZipPats == {pre \o core \o post : pre \in ZipJunk, core \in ZipCores, post \in ZipJunk}

ZipWindow == MaxCommentLen + 22

ZipLens ==
    {EocdMinSize - 1, EocdMinSize, EocdMinSize + ZipSlack,
     ZipWindow, ZipWindow + ZipSlack}

\* where the bytes may stand: at the start, around the start of the searched
\* window and at the end of the file
ZipOffs(len, n) ==
    {o \in ({0, len - n - 1, len - n}
              \cup {len - ZipWindow + k : k \in (0 - ZipSlack) .. 1}) :
        o >= 0 /\ o + n <= len}

ZipFiles ==
    UNION { { [len |-> l, off |-> o, pat |-> p] : o \in ZipOffs(l, Len(p)) } :
            l \in ZipLens, p \in ZipPats }

InitZip ==
    /\ pc = "ready"
    /\ zip_file \in ZipFiles
    /\ zip_io \in {"ok", "open", "metadata", "seek", "read"}
    /\ zip_verdict = None
    /\ FilesIdle /\ ScoreIdle /\ RankIdle /\ CombineIdle /\ ExtIdle

IsZipValid ==
    /\ pc = "ready"
    /\ zip_verdict' = Some(is_zip_valid(zip_file, zip_io))
    /\ pc' = "done"
    /\ UNCHANGED <<fileVars, zip_file, zip_io, metrics, rankVars, combVars, extVars>>

NextZip == IsZipValid

SpecZip == InitZip /\ [][NextZip]_vars

\* the places where the four signature bytes stand in the file
SignaturePlaces(f) ==
    {p \in f.off .. (f.off + Len(f.pat) - 4) : SubSeq(f.pat, p - f.off + 1, p - f.off + 4) = Signature}

\* C2: with open, seek and read succeeding, a file under 22 bytes is invalid,
\* a longer one is valid iff the signature stands wholly within its last
\* min(len, 65557) bytes; the reason is present exactly when invalid.
C2_ZipValidity ==
    pc = "done" =>
        LET valid  == Unwrap(zip_verdict)[1]
            reason == Unwrap(zip_verdict)[2]
            f      == zip_file
        IN  /\ IsSome(reason) <=> ~valid
            /\ zip_io = "ok" =>
                 /\ f.len < 22 => ~valid
                 /\ f.len >= 22 =>
                      (valid <=> \E p \in SignaturePlaces(f) :
                                     p >= f.len - Min(f.len, 65557))

\* a file longer than the window, accepted for a signature that starts on the
\* first byte of the window and is followed by look-alike bytes
C2_Witness ==
    /\ pc = "done"
    /\ zip_io = "ok"
    /\ Unwrap(zip_verdict)[1]
    /\ zip_file.len > 65557
    /\ SignaturePlaces(zip_file) = {zip_file.len - 65557}
    /\ Len(zip_file.pat) > 4

(***************************************************************************)
(* Inputs of calculate_health_score                                        *)
(***************************************************************************)
MaxCount == 3
MaxExpected == 3

InitScore ==
    /\ pc = "ready"
    /\ metrics \in [year : {2024}, month : {10},
                    missing_days : 0..MaxCount, anomaly_count : 0..MaxCount,
                    invalid_files : 0..MaxCount, empty_files : 0..MaxCount,
                    expected_weekdays : 0..MaxExpected, actual_archives : {0},
                    health_score : {AsF64(0)}, is_complete : {TRUE}]
    /\ FilesIdle /\ ZipIdle /\ RankIdle /\ CombineIdle /\ ExtIdle

\* metrics.health_score = calculate_health_score(&metrics)
CalculateHealthScore ==
    /\ pc = "ready"
    /\ metrics' = [metrics EXCEPT !.health_score = calculate_health_score(metrics)]
    /\ pc' = "done"
    /\ UNCHANGED <<fileVars, zipVars, rankVars, combVars, extVars>>

NextScore == CalculateHealthScore

SpecScore == InitScore /\ [][NextScore]_vars

\* C3: with expected_weekdays > 0 the score is 100 x (1 - penalty / (10 x
\* expected_weekdays)), penalty = 10 missing + 3 invalid + 2 anomalies + empty,
\* clamped to [0, 100]; every score lies in [0, 100].
C3_HealthScoreFormula ==
    pc = "done" =>
        LET s == metrics.health_score
            P == 10 * metrics.missing_days + 3 * metrics.invalid_files
                   + 2 * metrics.anomaly_count + metrics.empty_files
            M == 10 * metrics.expected_weekdays
        IN  /\ s.d > 0 /\ 0 <= s.n /\ s.n <= 100 * s.d
            /\ metrics.expected_weekdays > 0 =>
                 s.n * M = s.d * (IF P >= M THEN 0 ELSE 100 * (M - P))

\* a month scored strictly between 0 and 100 with all four counters at work
C3_Witness ==
    /\ pc = "done"
    /\ metrics.missing_days > 0 /\ metrics.invalid_files > 0
    /\ metrics.anomaly_count > 0 /\ metrics.empty_files > 0
    /\ metrics.health_score.n > 0
    /\ metrics.health_score.n < 100 * metrics.health_score.d

\* C4: a month with expected_weekdays > 0 and no missing day, anomaly, invalid
\* or empty file scores exactly 100; a month whose missing_days equals
\* expected_weekdays scores 0, never below, whatever its other counters.
C4_PerfectAndAllMissing ==
    (pc = "done" /\ metrics.expected_weekdays > 0) =>
        /\ (metrics.missing_days = 0 /\ metrics.anomaly_count = 0
              /\ metrics.invalid_files = 0 /\ metrics.empty_files = 0)
             => metrics.health_score = [n |-> 100, d |-> 1]
        /\ metrics.missing_days = metrics.expected_weekdays
             => metrics.health_score = [n |-> 0, d |-> 1]

\* an all-missing month that also has invalid files, so that the unclamped
\* value is negative
C4_Witness ==
    /\ pc = "done"
    /\ metrics.expected_weekdays > 0
    /\ metrics.missing_days = metrics.expected_weekdays
    /\ metrics.invalid_files > 0
    /\ metrics.health_score = [n |-> 0, d |-> 1]

(***************************************************************************)
(* Inputs of calculate_monthly_rankings                                    *)
(***************************************************************************)
MaxRankFiles == 3

\* folders of line A in September, October and November 2024
RankD1 == FromYmd(2024, 9, 30)
RankD2 == FromYmd(2024, 10, 14)
RankD3 == FromYmd(2024, 11, 1)

RankEntries ==
    { Entry("a.zip", 999, FALSE, DatedDir("A", RankD1)),
      Entry("a.zip", 999, TRUE, DatedDir("A", RankD2)),
      Entry("a.zip", 1000, TRUE, DatedDir("A", RankD2)),
      Entry("a.zip", 1000, TRUE, DatedDir("B", RankD2)),
      Entry("b.zip", 999, TRUE, DatedDir("A", RankD2)),
      Entry("a.zip", 1000, TRUE, DatedDir("A", RankD3)) }

RankAnomalies ==
    { None,
      Some([median_daily_size |-> 1000,
            anomalies |-> <<[name |-> DatedDir("A", RankD2), size |-> 10,
                             category |-> "Too Small"],
                            [name |-> DatedDir("B", RankD2), size |-> 5000,
                             category |-> "Too Large"]>>]) }

\* 2024-09-30 is a Monday, 2024-11-02 a Saturday and 2024-11-03 a Sunday
RankStarts == {FromYmd(2024, 9, 30), FromYmd(2024, 11, 2)}
RankEnds == {FromYmd(2024, 10, 31), FromYmd(2024, 12, 31)}
RankTodays == {FromYmd(2024, 10, 15), FromYmd(2024, 11, 3), FromYmd(2025, 1, 2)}

InitRank ==
    /\ pc = "ready"
    /\ files \in SeqsUpTo(RankEntries, MaxRankFiles)
    /\ line_id = "A"
    /\ gap_report \in {None} \cup (IF GapPanics(files, line_id) THEN {}
                                   ELSE {Some(find_gaps(files, line_id))})
    /\ anomaly_report \in RankAnomalies
    /\ start_date \in RankStarts
    /\ end_date \in {e \in RankEnds : start_date <= e}
    /\ today \in RankTodays
    /\ ranking_report = None
    /\ ZipIdle /\ ScoreIdle /\ CombineIdle /\ ExtIdle

\* calculate_monthly_rankings; the HashSet all_months is walked in any order, so
\* the metrics reach the Vec `months` in any order before the sort
CalculateMonthlyRankings ==
    /\ pc = "ready"
    /\ IF RankPanics(files, anomaly_report, line_id)
       THEN ranking_report' = None /\ pc' = "panicked"
       ELSE /\ \E collected \in Orders(ProducedMonths(files, gap_report, anomaly_report,
                                                        line_id, start_date, end_date,
                                                        TinyThreshold, today)) :
                 ranking_report' = Some(RankingReportOf(collected, line_id))
            /\ pc' = "done"
    /\ UNCHANGED <<fileVars, zipVars, metrics, anomaly_report, start_date, end_date, today,
                   combVars, extVars>>

NextRank == CalculateMonthlyRankings

SpecRank == InitRank /\ [][NextRank]_vars

\* the report of a finished run, and the (year, month) keys of its months
Report == Unwrap(ranking_report)
ReportKeys == {<<Report.months[i].year, Report.months[i].month>> : i \in 1..Len(Report.months)}

\* the records whose folder name carries a date of the given month for the line
RecordsOfMonth(year, month) ==
    {i \in 1..Len(files) :
        /\ files[i].parent_dir.head = Prefix(line_id)
        /\ files[i].parent_dir.ymd # <<>>
        /\ files[i].parent_dir.ymd[1] = year
        /\ files[i].parent_dir.ymd[2] = month}

\* a filename is always empty when no record of that name reaches the threshold
AlwaysEmptyName(name) ==
    \A j \in 1..Len(files) : files[j].name = name => files[j].size < 1000

\* C5: a record below the threshold counts in its month's empty_files iff its
\* filename is not always-empty over the whole input; a filename that is below
\* the threshold in only some records counts once for each such record.
C5_EmptyFilesExcludeAlwaysEmpty ==
    pc = "done" =>
        \A i \in 1..Len(Report.months) :
            LET m == Report.months[i]
            IN  m.empty_files =
                    Cardinality({r \in RecordsOfMonth(m.year, m.month) :
                                    files[r].size < 1000 /\ ~AlwaysEmptyName(files[r].name)})

\* a month with an always-empty file left out and a sometimes-empty file counted
C5_Witness ==
    /\ pc = "done"
    /\ \E i \in 1..Len(Report.months) :
         LET m == Report.months[i]
         IN  /\ m.empty_files > 0
             /\ \E r \in RecordsOfMonth(m.year, m.month) :
                    files[r].size < 1000 /\ AlwaysEmptyName(files[r].name)

\* the days of a month
DaysOfMonth(year, month) == FromYmd(year, month, 1) .. FromYmd(year, month, DaysInMonth(year, month))

\* the anomalies whose day name carries a date of the given month for the line
AnomaliesOfMonth(year, month) ==
    IF anomaly_report = <<>> THEN {}
    ELSE {i \in 1..Len(Unwrap(anomaly_report).anomalies) :
            LET name == Unwrap(anomaly_report).anomalies[i].name
            IN  /\ name.head = Prefix(line_id)
                /\ name.ymd # <<>>
                /\ name.ymd[1] = year
                /\ name.ymd[2] = month}

\* the missing weekdays of the gap report that lie in the given month
MissingOfMonth(year, month) ==
    IF gap_report = <<>> THEN {}
    ELSE {i \in 1..Len(Unwrap(gap_report).missing_weekdays) :
            Unwrap(gap_report).missing_weekdays[i] \in DaysOfMonth(year, month)}

(***************************************************************************)
(* C28: for every produced month, missing_days is the number of the gap    *)
(* report's missing weekdays that lie in the month, invalid_files the      *)
(* number of non-valid records whose folder-name date lies in it,          *)
(* anomaly_count the number of anomalies whose folder-name date lies in    *)
(* it, and actual_archives the number of distinct folder dates in it; an   *)
(* absent gap or anomaly report counts as zero, and a record or anomaly    *)
(* whose folder name yields no date for the line is counted in no month.   *)
(***************************************************************************)
C28_MonthlyBuckets ==
    pc = "done" =>
        \A i \in 1..Len(Report.months) :
            LET m == Report.months[i]
            IN  /\ m.missing_days = Cardinality(MissingOfMonth(m.year, m.month))
                /\ m.invalid_files =
                       Cardinality({r \in RecordsOfMonth(m.year, m.month) : ~files[r].is_valid})
                /\ m.anomaly_count = Cardinality(AnomaliesOfMonth(m.year, m.month))
                /\ m.actual_archives =
                       Cardinality({files[r].parent_dir.ymd : r \in RecordsOfMonth(m.year, m.month)})

\* a month with missing weekdays and with one anomaly counted out of the two
\* reported, a month with an invalid record, and a record of the other line
C28_Witness ==
    /\ pc = "done"
    /\ anomaly_report # <<>>
    /\ \E i \in 1..Len(Report.months) :
          /\ Report.months[i].missing_days > 0
          /\ Report.months[i].anomaly_count = 1
          /\ Report.months[i].actual_archives = 1
    /\ \E i \in 1..Len(Report.months) : Report.months[i].invalid_files = 1
    /\ \E r \in 1..Len(files) : files[r].parent_dir.head # Prefix(line_id)

(***************************************************************************)
(* C29: the months of the report are ordered by health_score descending,   *)
(* each month's score being greater than or equal to the score of the      *)
(* month after it, and the list holds each (year, month) at most once.     *)
(***************************************************************************)
C29_MonthsByScoreDescending ==
    pc = "done" =>
        /\ \A i \in 1..(Len(Report.months) - 1) :
              RatLe(Report.months[i + 1].health_score, Report.months[i].health_score)
        /\ \A i, j \in 1..Len(Report.months) :
              (Report.months[i].year = Report.months[j].year
                 /\ Report.months[i].month = Report.months[j].month) => i = j

\* three months, the first with a greater score than the last and the months
\* not in the order of the calendar
C29_Witness ==
    /\ pc = "done"
    /\ Len(Report.months) = 3
    /\ RatLt(Report.months[3].health_score, Report.months[1].health_score)
    /\ \E i \in 1..2 :
          <<Report.months[i + 1].year, Report.months[i + 1].month>>
              = <<Report.months[i].year, Report.months[i].month - 1>>

\* the days of the project range up to today
ClampedRange == start_date .. Min(end_date, today)

\* the months with a business day inside the clamped project range
BusinessMonths == {MonthKey(d) : d \in {x \in ClampedRange : IsMondayToFriday(x)}}

\* the months in which a dated record of the line or a reported missing weekday falls
DataMonths ==
    {<<files[i].parent_dir.ymd[1], files[i].parent_dir.ymd[2]>> :
        i \in {j \in 1..Len(files) : /\ files[j].parent_dir.head = Prefix(line_id)
                                      /\ files[j].parent_dir.ymd # <<>>}}
    \cup (IF gap_report = <<>> THEN {}
          ELSE {MonthKey(d) : d \in SeqRange(Unwrap(gap_report).missing_weekdays)})

OncePerMonth ==
    \A i, j \in 1..Len(Report.months) :
        (Report.months[i].year = Report.months[j].year
           /\ Report.months[i].month = Report.months[j].month) => i = j

\* C6 as stated: one MonthlyMetrics for every month with a business day in the
\* clamped project range, with or without data, and none for another month.
C6_OnePerBusinessMonth ==
    pc = "done" => (ReportKeys = BusinessMonths /\ OncePerMonth)

\* C6, amended: one MonthlyMetrics for every month that has a dated record or
\* a reported missing weekday and a business day in the clamped project range,
\* and none for another month.
C6_OnePerBusinessMonthWithData ==
    pc = "done" => (ReportKeys = BusinessMonths \cap DataMonths /\ OncePerMonth)

\* a month produced for its missing weekdays alone, while another month with
\* records is dropped
C6_Witness ==
    /\ pc = "done"
    /\ \E i \in 1..Len(Report.months) : Report.months[i].actual_archives = 0
    /\ DataMonths \ ReportKeys # {}

\* the Monday-Friday dates of a month inside the project range clamped to today
ExpectedDays(year, month) ==
    {d \in Max(FromYmd(year, month, 1), start_date) ..
           Min(Min(FromYmd(year, month, DaysInMonth(year, month)), end_date), today) :
        IsMondayToFriday(d)}

MonthUniverse == {<<2024, 9>>, <<2024, 10>>, <<2024, 11>>, <<2024, 12>>}

\* C7: count_expected_weekdays_in_month is the number of Monday-Friday dates d
\* with max(month_start, range_start) <= d <= min(month_end, range_end, today),
\* 0 when there is none; every MonthlyMetrics of a report has expected_weekdays > 0.
C7_ExpectedWeekdays ==
    pc = "done" =>
        /\ \A k \in MonthUniverse :
              count_expected_weekdays_in_month(k[1], k[2], start_date, end_date, today)
                  = Cardinality(ExpectedDays(k[1], k[2]))
        /\ \A i \in 1..Len(Report.months) :
              /\ Report.months[i].expected_weekdays > 0
              /\ Report.months[i].expected_weekdays
                    = Cardinality(ExpectedDays(Report.months[i].year, Report.months[i].month))

\* a report with a month cut short by today, while a month with records is
\* dropped for having no expected weekday
C7_Witness ==
    /\ pc = "done"
    /\ \E i \in 1..Len(Report.months) :
          /\ today < FromYmd(Report.months[i].year, Report.months[i].month,
                             DaysInMonth(Report.months[i].year, Report.months[i].month))
          /\ Report.months[i].expected_weekdays = 11
    /\ \E r \in 1..Len(files) :
          /\ files[r].parent_dir = DatedDir(line_id, RankD3)
          /\ <<2024, 11>> \notin ReportKeys

CompleteMonths == {i \in 1..Len(Report.months) : Report.months[i].is_complete}

\* C9: best_month and worst_month are the highest- and lowest-scoring complete
\* months when a complete month exists, the highest- and lowest-scoring of all
\* months otherwise, and are absent exactly when no month is produced;
\* is_complete means that today is after the month's last day.
C9_BestWorstPreferComplete ==
    pc = "done" =>
        LET pool == IF CompleteMonths # {} THEN CompleteMonths ELSE 1..Len(Report.months)
        IN  /\ \A i \in 1..Len(Report.months) :
                  Report.months[i].is_complete <=>
                      today > FromYmd(Report.months[i].year, Report.months[i].month,
                                      DaysInMonth(Report.months[i].year, Report.months[i].month))
            /\ (Report.best_month = <<>>) <=> (Report.months = <<>>)
            /\ (Report.worst_month = <<>>) <=> (Report.months = <<>>)
            /\ Report.months # <<>> =>
                  /\ \E i \in pool : Report.months[i] = Unwrap(Report.best_month)
                  /\ \E i \in pool : Report.months[i] = Unwrap(Report.worst_month)
                  /\ \A i \in pool :
                        /\ RatLe(Report.months[i].health_score,
                                 Unwrap(Report.best_month).health_score)
                        /\ RatLe(Unwrap(Report.worst_month).health_score,
                                 Report.months[i].health_score)

\* an incomplete month scores above every complete month and is not the best month
C9_Witness ==
    /\ pc = "done"
    /\ CompleteMonths # {}
    /\ ~Report.months[1].is_complete
    /\ Unwrap(Report.best_month).is_complete
    /\ RatLt(Unwrap(Report.best_month).health_score, Report.months[1].health_score)
    /\ Unwrap(Report.best_month) # Unwrap(Report.worst_month)

(***************************************************************************)
(* Inputs of combine_rankings                                              *)
(***************************************************************************)
MaxMissing == 2

CombineKeys == << <<2024, 9>>, <<2024, 10>>, <<2024, 11>> >>

\* a complete month of 10 expected weekdays, `missing` of them without a folder
ScoredMonth(key, missing) ==
    LET m == [year |-> key[1], month |-> key[2], missing_days |-> missing,
              anomaly_count |-> 0, invalid_files |-> 0, empty_files |-> 0,
              expected_weekdays |-> 10, actual_archives |-> 10 - missing,
              health_score |-> AsF64(0), is_complete |-> TRUE]
    IN  [m EXCEPT !.health_score = calculate_health_score(m)]

\* the reports of one line: each month absent (-1) or present with 0..MaxMissing
\* missing days
RECURSIVE ChosenMonths(_, _)
ChosenMonths(choice, i) ==
    IF i > Len(CombineKeys) THEN <<>>
    ELSE (IF choice[i] < 0 THEN <<>> ELSE <<ScoredMonth(CombineKeys[i], choice[i])>>)
           \o ChosenMonths(choice, i + 1)

LineReports(line) ==
    {RankingReportOf(ChosenMonths(choice, 1), line) :
        choice \in [1..Len(CombineKeys) -> (0 - 1)..MaxMissing]}

InitCombine ==
    /\ pc = "ready"
    /\ line_a \in LineReports("A")
    /\ line_b \in LineReports("B")
    /\ combined_report = None
    /\ FilesIdle /\ ZipIdle /\ ScoreIdle /\ RankIdle /\ ExtIdle

\* combine_rankings; the HashSet all_months is walked in any order, so the
\* combined metrics reach the Vec `months` in any order before the sort
CombineRankings ==
    /\ pc = "ready"
    /\ \E collected \in Orders(CombinedMonths(line_a, line_b)) :
         combined_report' = Some(CombinedReportOf(collected, line_a, line_b))
    /\ pc' = "done"
    /\ UNCHANGED <<fileVars, zipVars, metrics, rankVars, line_a, line_b, extVars>>

NextCombine == CombineRankings

SpecCombine == InitCombine /\ [][NextCombine]_vars

Combined == Unwrap(combined_report)

\* the score a line's report gives for a month, as the set of its values
ScoresOf(report, year, month) ==
    {report.months[i].health_score :
        i \in {j \in 1..Len(report.months) :
                  report.months[j].year = year /\ report.months[j].month = month}}

KeysOf(report) == {<<report.months[i].year, report.months[i].month>> : i \in 1..Len(report.months)}

\* C8: every (year, month) of either line has exactly one combined entry and no
\* other month has one; combined_score is (a + b) / 2 when both lines score the
\* month and the single score unchanged when only one does.
C8_CombinedScore ==
    pc = "done" =>
        /\ KeysOf(Combined) = KeysOf(line_a) \cup KeysOf(line_b)
        /\ Len(Combined.months) = Cardinality(KeysOf(Combined))
        /\ \A i \in 1..Len(Combined.months) :
              LET c == Combined.months[i]
                  A == ScoresOf(line_a, c.year, c.month)
                  B == ScoresOf(line_b, c.year, c.month)
              IN  /\ \A a \in A : \A b \in B :
                        /\ c.combined_score.n * a.d * b.d * 2
                              = c.combined_score.d * (a.n * b.d + b.n * a.d)
                        /\ c.line_a_score = <<a>> /\ c.line_b_score = <<b>>
                  /\ (B = {}) => (A = {c.combined_score} /\ c.line_b_score = <<>>)
                  /\ (A = {}) => (B = {c.combined_score} /\ c.line_a_score = <<>>)

\* a month of both lines averaged beside a month that only line B has
C8_Witness ==
    /\ pc = "done"
    /\ \E i, j \in 1..Len(Combined.months) :
          /\ Combined.months[i].line_a_score = <<[n |-> 80, d |-> 1]>>
          /\ Combined.months[i].line_b_score = <<[n |-> 90, d |-> 1]>>
          /\ Combined.months[i].combined_score = [n |-> 85, d |-> 1]
          /\ Combined.months[j].line_a_score = <<>>
          /\ Combined.months[j].combined_score = [n |-> 90, d |-> 1]

TwoSided == {i \in 1..Len(Combined.months) :
                Combined.months[i].line_a_score # <<>> /\ Combined.months[i].line_b_score # <<>>}

\* C10: best_month and worst_month of the combined report are the highest and
\* lowest combined_score among the months both lines have when there is one,
\* and among all combined months otherwise.
C10_BestWorstPreferBothLines ==
    (pc = "done" /\ Combined.months # <<>>) =>
        LET pool == IF TwoSided # {} THEN TwoSided ELSE 1..Len(Combined.months)
        IN  /\ \E i \in pool : Combined.months[i] = Unwrap(Combined.best_month)
            /\ \E i \in pool : Combined.months[i] = Unwrap(Combined.worst_month)
            /\ \A i \in pool :
                  /\ RatLe(Combined.months[i].combined_score,
                           Unwrap(Combined.best_month).combined_score)
                  /\ RatLe(Unwrap(Combined.worst_month).combined_score,
                           Combined.months[i].combined_score)

\* a one-sided month scores above every two-sided month and is not the best month
C10_Witness ==
    /\ pc = "done"
    /\ Cardinality(TwoSided) = 2
    /\ 1 \notin TwoSided
    /\ RatLt(Unwrap(Combined.best_month).combined_score, Combined.months[1].combined_score)
    /\ RatLt(Unwrap(Combined.worst_month).combined_score,
             Unwrap(Combined.best_month).combined_score)

(***************************************************************************)
(* Inputs of the date extraction: one folder name and one line id          *)
(***************************************************************************)
MaxTailExtra == 2

NameHeads == {"Archive_Beam_A_", "Archive_Beam_B_", "Archive_Beam_C_", "SomeOtherDir"}

\* the numbers of ten characters of the shape dddd-dd-dd, calendar dates or not
NameYmds == {<<y, m, d>> : y \in {2023, 2024}, m \in {0, 2, 12, 13},
                           d \in {0, 28, 29, 30, 31, 32}}

\* ten ASCII characters end on a character boundary; a tail whose byte 10 is
\* inside a character is at least 11 bytes long
FolderNames ==
    {n \in [head : NameHeads, tail_len : {0, 9} \cup (10..(10 + MaxTailExtra)),
            split : BOOLEAN, ymd : NameYmds \cup {<<>>}] :
        /\ n.ymd # <<>> => (n.tail_len >= 10 /\ ~n.split)
        /\ n.split => n.tail_len >= 11}

InitDate ==
    /\ pc = "ready"
    /\ files \in {<<Entry("dummy.zip", 0, TRUE, n)>> : n \in FolderNames}
    /\ line_id \in {"A", "B"}
    /\ gap_report = None
    /\ dir_date = None
    /\ ZipIdle /\ ScoreIdle /\ RankIdle /\ CombineIdle /\ AnomIdle /\ IntegIdle /\ ScanIdle
    /\ DashIdle /\ LaterIdle

\* the scorer and the gap analyzer each read the date of the same folder name
ExtractDate ==
    /\ pc = "ready"
    /\ dir_date' = extract_date_from_dir(files[1].parent_dir, line_id)
    /\ gap_report' = IF GapPanics(files, line_id) THEN Panic
                     ELSE Some(find_gaps(files, line_id))
    /\ pc' = "done"
    /\ UNCHANGED <<files, line_id, zipVars, metrics, rankVars, combVars, anomVars, integVars,
                   scanVars, dashVars, laterVars>>

NextDate == ExtractDate

SpecDate == InitDate /\ [][NextDate]_vars

\* the date find_gaps obtained from the one folder name
GapDate ==
    IF gap_report = Panic THEN Panic
    ELSE IF Unwrap(gap_report).is_empty THEN None
    ELSE Some(Unwrap(gap_report).start_date)

\* the ten characters after the prefix are a date of the calendar
ParsesAsDate(ymd) ==
    /\ ymd # <<>>
    /\ ymd[2] \in 1..12
    /\ ymd[3] \in 1..DaysInMonth(ymd[1], ymd[2])

\* C13: a date is obtained from a folder name iff the name starts with
\* Archive_Beam_<line>_ and the next 10 characters parse as YYYY-MM-DD, whatever
\* follows them; find_gaps and extract_date_from_dir obtain the same result.
C13_DateExtraction ==
    pc = "done" =>
        LET dir == files[1].parent_dir
        IN  /\ IsSome(dir_date) <=> (dir.head = Prefix(line_id) /\ ParsesAsDate(dir.ymd))
            /\ IsSome(dir_date) =>
                  Unwrap(dir_date) = FromYmd(dir.ymd[1], dir.ymd[2], dir.ymd[3])
            /\ GapDate = dir_date

\* a date read from a name that goes on after its ten characters
C13_Witness ==
    /\ pc = "done"
    /\ files[1].parent_dir.tail_len > 10
    /\ IsSome(dir_date)
    /\ GapDate = dir_date

(***************************************************************************)
(* Inputs of calculate_anomalies                                           *)
(***************************************************************************)
MaxDays == 3
MaxSize == 6

\* day identifiers, one a proper prefix of another
DayNames == {<<1>>, <<1, 2>>, <<2>>, <<2, 1>>}

\* low thresholds: 0.5, 0.8 and one above the high factor 1.2
LowThresholds == {Rat(1, 2), Rat(4, 5), Rat(3, 2)}

InitAnomalies ==
    /\ pc = "ready"
    /\ \E S \in {T \in SUBSET DayNames : Cardinality(T) <= MaxDays} :
          dirs \in [S -> 0..MaxSize]
    /\ threshold \in LowThresholds
    /\ anomalies_report = None
    /\ FilesIdle /\ ZipIdle /\ ScoreIdle /\ RankIdle /\ CombineIdle /\ DateIdle /\ IntegIdle
    /\ ScanIdle /\ DashIdle /\ LaterIdle

CalculateAnomalies ==
    /\ pc = "ready"
    /\ \E order \in Orders(DOMAIN dirs) :
          anomalies_report' = calculate_anomalies(dirs, order, threshold)
    /\ pc' = "done"
    /\ UNCHANGED <<fileVars, zipVars, metrics, rankVars, combVars, dateVars, dirs, threshold,
                   integVars, scanVars, dashVars, laterVars>>

NextAnomalies == CalculateAnomalies

SpecAnomalies == InitAnomalies /\ [][NextAnomalies]_vars

\* m is a median of the day sizes: at least half of them are at most m and at
\* least half of them are at least m
IsMedianOfDays(m) ==
    /\ 2 * Cardinality({k \in DOMAIN dirs : dirs[k] <= m}) >= Cardinality(DOMAIN dirs)
    /\ 2 * Cardinality({k \in DOMAIN dirs : dirs[k] >= m}) >= Cardinality(DOMAIN dirs)

\* the entries of the report about the day k
ReportedAs(k) ==
    {i \in 1..Len(Unwrap(anomalies_report).anomalies) :
        Unwrap(anomalies_report).anomalies[i].name = k}

\* C14: with m the median of the days' sizes, a day of size s is reported
\* "Too Small" iff s < m x threshold, "Too Large" iff it is not too small and
\* s > m x 1.2, and not reported otherwise; a day is reported at most once, with
\* its size, in ascending order of day identifier; no days, no report.
C14_AnomalyClassification ==
    pc = "done" =>
        /\ anomalies_report = None <=> DOMAIN dirs = {}
        /\ IsSome(anomalies_report) =>
              LET r == Unwrap(anomalies_report)
                  m == r.median_daily_size
              IN  /\ IsMedianOfDays(m)
                  /\ \A k \in DOMAIN dirs :
                        LET small == dirs[k] * threshold.d < m * threshold.n
                            large == ~small /\ dirs[k] * 5 > m * 6
                        IN  /\ Cardinality(ReportedAs(k)) = IF small \/ large THEN 1 ELSE 0
                            /\ \A i \in ReportedAs(k) :
                                  /\ r.anomalies[i].size = dirs[k]
                                  /\ r.anomalies[i].category = "Too Small" <=> small
                                  /\ r.anomalies[i].category = "Too Large" <=> large
                  /\ \A i \in 1..Len(r.anomalies) : r.anomalies[i].name \in DOMAIN dirs
                  /\ \A i \in 1..(Len(r.anomalies) - 1) :
                        StrLess(r.anomalies[i].name, r.anomalies[i + 1].name)

\* a report with a too small day and an unreported day whose size is exactly
\* m x 1.2
C14_Witness ==
    /\ pc = "done"
    /\ IsSome(anomalies_report)
    /\ \E i \in 1..Len(Unwrap(anomalies_report).anomalies) :
          Unwrap(anomalies_report).anomalies[i].category = "Too Small"
    /\ \E k \in DOMAIN dirs :
          /\ ReportedAs(k) = {}
          /\ dirs[k] * 5 = Unwrap(anomalies_report).median_daily_size * 6
          /\ dirs[k] > 0

(***************************************************************************)
(* Inputs of calculate_integrity_stats                                     *)
(***************************************************************************)
MaxStatFiles == 3

\* file names as bytes
StatNameA == <<1>>
StatNameB == <<1, 2>>
StatNameC == <<2>>

\* records below, at and above the tiny threshold; two invalid ones
StatEntries ==
    {Entry(StatNameA, z, TRUE, DatedDir("A", RankD2)) :
        z \in {TinyThreshold - 1, TinyThreshold, TinyThreshold + 1}}
    \cup {Entry(StatNameB, z, TRUE, DatedDir("A", RankD2)) :
        z \in {TinyThreshold - 1, TinyThreshold + 1, TinyThreshold + 2}}
    \cup {Entry(StatNameC, TinyThreshold, TRUE, DatedDir("A", RankD2)),
          Entry(StatNameA, TinyThreshold + 2, FALSE, DatedDir("A", RankD2)),
          Entry(StatNameB, TinyThreshold - 1, FALSE, DatedDir("A", RankD2))}

\* two names with two sized records each, the sizes of a name one byte apart,
\* in every input order
PairedEntries ==
    {Entry(StatNameA, TinyThreshold, TRUE, DatedDir("A", RankD2)),
     Entry(StatNameA, TinyThreshold + 1, TRUE, DatedDir("A", RankD2)),
     Entry(StatNameB, TinyThreshold + 1, TRUE, DatedDir("A", RankD2)),
     Entry(StatNameB, TinyThreshold + 2, TRUE, DatedDir("A", RankD2))}

InitIntegrity ==
    /\ pc = "ready"
    /\ files \in SeqsUpTo(StatEntries, MaxStatFiles) \cup Orders(PairedEntries)
    /\ line_id = "A"
    /\ gap_report = None
    /\ integrity_stats = None
    /\ ZipIdle /\ ScoreIdle /\ RankIdle /\ CombineIdle /\ DateIdle /\ AnomIdle /\ ScanIdle
    /\ DashIdle /\ LaterIdle

CalculateIntegrityStats ==
    /\ pc = "ready"
    /\ \E keys \in Orders({files[i].name : i \in 1..Len(files)}) :
          integrity_stats' = calculate_integrity_stats(files, keys, TinyThreshold)
    /\ pc' = "done"
    /\ UNCHANGED <<fileVars, zipVars, metrics, rankVars, combVars, dateVars, anomVars, scanVars,
                   dashVars, laterVars>>

NextIntegrity == CalculateIntegrityStats

SpecIntegrity == InitIntegrity /\ [][NextIntegrity]_vars

\* the records of a name, as the claims speak of them
RecordsNamed(name) == {i \in 1..Len(files) : files[i].name = name}
StatNames == {files[i].name : i \in 1..Len(files)}
Stats == Unwrap(integrity_stats)
RowsNamed(name) == {i \in 1..Len(Stats.rows) : Stats.rows[i].name = name}

\* C15: on non-empty input there is exactly one row per distinct filename, with
\* total, empty and bad the numbers of its records, of those below the tiny
\* threshold and of those with is_valid = false; the grand counts are the same
\* numbers over all records; on empty input the result is None.
C15_RowCounts ==
    pc = "done" =>
        /\ integrity_stats = None <=> files = <<>>
        /\ IsSome(integrity_stats) =>
              /\ \A i \in 1..Len(Stats.rows) : Stats.rows[i].name \in StatNames
              /\ \A name \in StatNames :
                    /\ Cardinality(RowsNamed(name)) = 1
                    /\ \A i \in RowsNamed(name) :
                          /\ Stats.rows[i].total = Cardinality(RecordsNamed(name))
                          /\ Stats.rows[i].empty =
                                Cardinality({j \in RecordsNamed(name) :
                                               files[j].size < TinyThreshold})
                          /\ Stats.rows[i].bad =
                                Cardinality({j \in RecordsNamed(name) : ~files[j].is_valid})
              /\ Stats.grand_total = Len(files)
              /\ Stats.grand_empty =
                    Cardinality({j \in 1..Len(files) : files[j].size < TinyThreshold})
              /\ Stats.grand_bad = Cardinality({j \in 1..Len(files) : ~files[j].is_valid})

\* two names, one of them with an empty record and an invalid record, and a
\* record of exactly the threshold, which is not counted empty
C15_Witness ==
    /\ pc = "done"
    /\ IsSome(integrity_stats)
    /\ Len(Stats.rows) = 2
    /\ \E i \in 1..Len(Stats.rows) :
          Stats.rows[i].total = 2 /\ Stats.rows[i].empty = 1 /\ Stats.rows[i].bad = 1
    /\ \E j \in 1..Len(files) : files[j].size = TinyThreshold
    /\ Stats.grand_empty = 1

\* the records of a name at or above the tiny threshold
SizedRecords(name) == {j \in RecordsNamed(name) : files[j].size >= TinyThreshold}

\* the k-th smallest of the values val[j], counted with repetitions
KthOf(val, k) ==
    CHOOSE v \in {val[j] : j \in DOMAIN val} :
        /\ Cardinality({j \in DOMAIN val : val[j] < v}) < k
        /\ k <= Cardinality({j \in DOMAIN val : val[j] <= v})

\* twice the standard median of the values val[j]: twice the middle value for
\* an odd count, the sum of the two central values for an even count
TwiceMedianOf(val) ==
    LET n == Cardinality(DOMAIN val)
    IN  IF n % 2 = 1 THEN 2 * KthOf(val, (n + 1) \div 2)
        ELSE KthOf(val, n \div 2) + KthOf(val, (n \div 2) + 1)

\* twice the standard median of the sizes of the records J
TwiceMedian(J) == TwiceMedianOf([j \in J |-> files[j].size])

\* the input with the records i and i + 1 exchanged
Exchanged(i) ==
    [j \in 1..Len(files) |-> IF j = i THEN files[i + 1]
                             ELSE IF j = i + 1 THEN files[i] ELSE files[j]]

C18_ValidStats ==
    (pc = "done" /\ IsSome(integrity_stats)) =>
        \A i \in 1..Len(Stats.rows) :
            LET row == Stats.rows[i]
            IN  /\ ~row.valid_stats <=> SizedRecords(row.name) = {}
                /\ ~row.valid_stats <=> row.empty = row.total
                /\ ~row.valid_stats =>
                      /\ row.min_size = 0 /\ row.max_size = 0 /\ row.median_size = 0
                      /\ row.std_dev.lo.n = 0 /\ row.std_dev.hi.n = 0
                /\ row.valid_stats =>
                      row.min_size <= row.median_size /\ row.median_size <= row.max_size

\* a row without valid statistics next to a row with them whose sizes differ
C18_Witness ==
    /\ pc = "done"
    /\ IsSome(integrity_stats)
    /\ \E i, j \in 1..Len(Stats.rows) :
          /\ ~Stats.rows[i].valid_stats /\ Stats.rows[i].total > 0
          /\ Stats.rows[j].valid_stats
          /\ Stats.rows[j].min_size < Stats.rows[j].max_size

\* the names with a record at or above the tiny threshold
ValidNames == {name \in StatNames : SizedRecords(name) # {}}

\* the median_size of the row of a name
RowMedian(name) == Stats.rows[CHOOSE i \in RowsNamed(name) : TRUE].median_size

\* twice the standard median of all sizes at or above the threshold, pooled
TwicePooledMedian ==
    TwiceMedian({j \in 1..Len(files) : files[j].size >= TinyThreshold})

\* C17 as stated: grand_median is the median of the rows' medians, over the
\* rows with valid statistics only, and 0 when there is none; medians are in
\* whole bytes, the half of a midpoint dropped.
C17_GrandMedianOfRowMedians ==
    (pc = "done" /\ IsSome(integrity_stats)) =>
        Stats.grand_median =
            IF ValidNames = {} THEN 0
            ELSE TwiceMedianOf([name \in ValidNames |-> RowMedian(name)]) \div 2

\* C17, amended: grand_median is the median of the per-filename medians as
\* they are before being cut to whole bytes (exact midpoints), over the rows
\* with valid statistics only, itself cut to whole bytes, and 0 when there is
\* no such row.
C17_GrandMedianOfExactMedians ==
    (pc = "done" /\ IsSome(integrity_stats)) =>
        Stats.grand_median =
            IF ValidNames = {} THEN 0
            ELSE TwiceMedianOf([name \in ValidNames |->
                                   TwiceMedian(SizedRecords(name))]) \div 4

\* two rows with valid statistics, the grand median differing from the median
\* of the pooled sizes
C17_Witness ==
    /\ pc = "done"
    /\ IsSome(integrity_stats)
    /\ Cardinality(ValidNames) = 2
    /\ Stats.grand_median # TwicePooledMedian \div 2
    /\ Stats.grand_median * 2 # TwicePooledMedian

(***************************************************************************)
(* Inputs of scan_files                                                    *)
(***************************************************************************)
MaxScanItems == 3

\* a file of 22 bytes that is an end-of-central-directory record, and one
\* byte less
GoodZip == [len |-> EocdMinSize, off |-> 0, pat |-> Signature]
ShortZip == [len |-> EocdMinSize - 1, off |-> 0, pat |-> Signature]

ScanItem(stem, ext, is_file, walk_ok, metadata_ok, fs_metadata_ok, content, io) ==
    [name |-> [stem |-> stem, ext |-> ext], is_file |-> is_file, walk_ok |-> walk_ok,
     metadata_ok |-> metadata_ok, fs_metadata_ok |-> fs_metadata_ok,
     content |-> content, io |-> io, parent |-> DatedDir("A", RankD2)]

\* a.zip, b.ZIP, c.txt, the directory d.zip, a path the walk cannot read,
\* f.zip whose first metadata call fails, g.zip whose metadata cannot be read
\* at all, h without extension, i.Zip that cannot be opened
ScanItems ==
    { ScanItem("a", Some(ZipExt), TRUE, TRUE, TRUE, TRUE, GoodZip, "ok"),
      ScanItem("b", Some(<<90, 73, 80>>), TRUE, TRUE, TRUE, TRUE, ShortZip, "ok"),
      ScanItem("c", Some(<<116, 120, 116>>), TRUE, TRUE, TRUE, TRUE, GoodZip, "ok"),
      ScanItem("d", Some(ZipExt), FALSE, TRUE, TRUE, TRUE, GoodZip, "ok"),
      ScanItem("e", Some(ZipExt), TRUE, FALSE, FALSE, FALSE, GoodZip, "ok"),
      ScanItem("f", Some(ZipExt), TRUE, TRUE, FALSE, TRUE, GoodZip, "ok"),
      ScanItem("g", Some(ZipExt), TRUE, TRUE, FALSE, FALSE, GoodZip, "ok"),
      ScanItem("h", None, TRUE, TRUE, TRUE, TRUE, GoodZip, "ok"),
      ScanItem("i", Some(<<90, 105, 112>>), TRUE, TRUE, TRUE, TRUE, GoodZip, "open") }

InitScan ==
    /\ pc = "ready"
    /\ tree \in {T \in SUBSET ScanItems : Cardinality(T) <= MaxScanItems}
    /\ scan_result = None
    /\ FilesIdle /\ ZipIdle /\ ScoreIdle /\ RankIdle /\ CombineIdle
    /\ DateIdle /\ AnomIdle /\ IntegIdle /\ DashIdle /\ LaterIdle

\* scan_files: the walk hands out the items of the tree in directory order,
\* which is any order
ScanFiles ==
    /\ pc = "ready"
    /\ \E walk \in Orders(tree) :
          /\ scan_result' = scan_files(walk)
          /\ pc' = IF scan_files(walk) = Panic THEN "panicked" ELSE "done"
    /\ UNCHANGED <<fileVars, zipVars, metrics, rankVars, combVars, dateVars, anomVars,
                   integVars, tree, dashVars, laterVars>>

NextScan == ScanFiles

SpecScan == InitScan /\ [][NextScan]_vars

\* the regular files named *.zip in any case, as the claim speaks of them
ZipFilesOfTree == {e \in tree : e.is_file /\ e.name.ext \in {Some(ZipExt), Some(<<90, 73, 80>>),
                                                              Some(<<90, 105, 112>>)}}

\* an item whose listing or metadata cannot be read
Unreadable(e) == ~e.walk_ok \/ (~e.metadata_ok /\ ~e.fs_metadata_ok)

\* C19: scan_files runs to completion whatever the tree holds; the items whose
\* listing or metadata cannot be read are skipped and every other regular zip
\* file, in any case of the extension, gets exactly one FileEntry.
C19_ScanNeverAborts ==
    pc # "ready" =>
        /\ pc = "done"
        /\ \A e \in ZipFilesOfTree :
              Cardinality({i \in 1..Len(Unwrap(scan_result)) :
                             Unwrap(scan_result)[i].name = e.name})
                  = IF Unreadable(e) THEN 0 ELSE 1
        /\ \A i \in 1..Len(Unwrap(scan_result)) :
              \E e \in ZipFilesOfTree : Unwrap(scan_result)[i].name = e.name

(***************************************************************************)
(* main.rs: the audit of one line and its alert files.  Time is counted in *)
(* ticks, TicksPerMinute of them to the minute.  The content of a file is  *)
(* a record: Text(s) for the string s, Stamp(t) for the time t written as  *)
(* %Y-%m-%d %H:%M, which keeps the minute of t only; ws tells whether      *)
(* white space surrounds the text.  A path under base_dir is the pair of   *)
(* its fixed part and of the line id it ends with.                         *)
(***************************************************************************)
TicksPerMinute == 2

Text(str) == [kind |-> "text", text |-> str, minute |-> 0, ws |-> FALSE]
\* Local::now().format("%Y-%m-%d %H:%M").to_string()
Stamp(t) == [kind |-> "stamp", text |-> "", minute |-> t \div TicksPerMinute, ws |-> FALSE]
\* a text of the form %Y-%m-%d %H:%M naming a minute the local time zone skips
SkippedStamp(t) == [Stamp(t) EXCEPT !.kind = "skipped_stamp"]
\* a content with a trailing newline
Padded(content) == [content EXCEPT !.ws = TRUE]
\* str::trim
Trim(content) == [content EXCEPT !.ws = FALSE]

\* a 64-bit integer written k * 2^63 + off, with off small
Wide(k, off) == [k |-> k, off |-> off]
\* threshold_minutes as i64: a u64 from 2^63 on wraps to the value less 2^64
AsI64(u) ==
    IF u.k = 1 /\ u.off >= 0 THEN Wide(-1, u.off)
    ELSE IF u.k = 2 THEN Wide(0, u.off)
    ELSE u
\* minutes >= wide for an i64 minutes of small size
I64Ge(minutes, wide) ==
    IF wide.k > 0 THEN FALSE ELSE IF wide.k < 0 THEN TRUE ELSE minutes >= wide.off
\* Duration::num_minutes: whole minutes, rounded towards zero
NumMinutes(ticks) ==
    IF ticks >= 0 THEN ticks \div TicksPerMinute ELSE -((-ticks) \div TicksPerMinute)

AlertThreshold == 20

StateFile_Shared(line) == <<".transfer_state_", "A">>

\* format!("{}/.transfer_state_{}", base_dir, line_id)
StateFile(line) == <<".transfer_state_", line>>
\* format!("{}/.transfer_since_{}", base_dir, line_id)
SinceFile(line) == <<".transfer_since_", line>>
\* format!("{}/.transfer_state_changed_{}", base_dir, line_id)
TimestampFile(line) == <<".transfer_state_changed_", line>>
\* format!("{}/.transfer_interruptions_{}", base_dir, line_id)
LogFile(line) == <<".transfer_interruptions_", line>>

\* NaiveDateTime::parse_from_str(timestamp_str.trim(), "%Y-%m-%d %H:%M") and the
\* minutes from it to current_time
parse_timestamp_and_get_elapsed_minutes(content, current_time) ==
    IF content.kind = "stamp"
    THEN Some(NumMinutes(current_time - content.minute * TicksPerMinute))
    ELSE None

determine_alert_action_PendingFirst(current_state, prev_state, timestamp_file_content, threshold_minutes, current_time) ==
    LET elapsed == IF timestamp_file_content = None THEN None
                   ELSE parse_timestamp_and_get_elapsed_minutes(
                            Unwrap(timestamp_file_content), current_time)
    IN  IF elapsed # None /\ I64Ge(Unwrap(elapsed), AsI64(threshold_minutes))
        THEN [action |-> "SendAlert", minutes_elapsed |-> Unwrap(elapsed)]
        ELSE IF current_state # prev_state
        THEN [action |-> "CreateTimestamp", minutes_elapsed |-> 0]
        ELSE IF elapsed = None
        THEN [action |-> "NoAction", minutes_elapsed |-> 0]
        ELSE [action |-> "WaitForThreshold", minutes_elapsed |-> 0]

determine_alert_action(current_state, prev_state, timestamp_file_content, threshold_minutes, current_time) ==
    IF current_state # prev_state
    THEN [action |-> "CreateTimestamp", minutes_elapsed |-> 0]
    ELSE IF timestamp_file_content = None
    THEN [action |-> "NoAction", minutes_elapsed |-> 0]
    ELSE LET elapsed == parse_timestamp_and_get_elapsed_minutes(
                            Unwrap(timestamp_file_content), current_time)
         IN  IF elapsed = None
             THEN [action |-> "NoAction", minutes_elapsed |-> 0]
             ELSE IF I64Ge(Unwrap(elapsed), AsI64(threshold_minutes))
             THEN [action |-> "SendAlert", minutes_elapsed |-> Unwrap(elapsed)]
             ELSE [action |-> "WaitForThreshold", minutes_elapsed |-> 0]

\* format!("{},{},{},{:.1}\n", timestamp, old_state, new_state, speed_mbps)
LogEntry(now, old_state, new_state) ==
    [timestamp |-> now, old_state |-> old_state, new_state |-> new_state]

AppendLine_Truncate(content, entry) == Some(<<entry>>)

\* OpenOptions::new().create(true).append(true).open(&log_file), write_all
AppendLine(content, entry) ==
    Some((IF IsSome(content) THEN Unwrap(content) ELSE <<>>) \o <<entry>>)

ArmOf_CleanUpOnNoAction(action) ==
    IF action = "CreateTimestamp" THEN "log"
    ELSE IF action = "SendAlert" THEN "send"
    ELSE IF action = "NoAction" THEN "remove_timestamp"
    ELSE "write_state"

\* match action: the first step of the arm check_and_send_alerts executes
ArmOf(action) ==
    IF action = "CreateTimestamp" THEN "log"
    ELSE IF action = "SendAlert" THEN "send"
    ELSE "write_state"

\* the locals of a thread before its first step
ThreadStart ==
    [pc |-> "scan", prev_state |-> Text(""), since_ts |-> Text(""),
     action |-> "", minutes_elapsed |-> 0, sent |-> <<>>, touched |-> {}, report |-> None]

\* one file operation of collect_audit_data / check_and_send_alerts for the
\* line, on the files fs, by the thread with locals t; cur is the state the
\* measured speed gives, panics the call of the audit that panics on the
\* line's directory ("scan", "gaps" or "none")
AuditStep(line, fs, t, cur, panics, cfg, threshold_minutes, now) ==
    IF t.pc = "scan"
    THEN \* scanner::get_total_size twice, scanner::scan_files(&search_dir)
         [fs |-> fs, t |-> [t EXCEPT !.pc = IF panics = "scan" THEN "panicked"
                                             ELSE "read_state"]]
    ELSE IF t.pc = "read_state"
    THEN \* fs::read_to_string(&state_file).unwrap_or_else(|_| "IDLE".to_string())
         [fs |-> fs,
          t |-> [t EXCEPT !.pc = "check_since",
                          !.prev_state = IF IsSome(fs[StateFile(line)])
                                         THEN Trim(Unwrap(fs[StateFile(line)]))
                                         ELSE Text("IDLE"),
                          !.touched = @ \cup {StateFile(line)}]]
    ELSE IF t.pc = "check_since"
    THEN \* current_state != prev_state || !Path::new(&since_file).exists()
         [fs |-> fs,
          t |-> [t EXCEPT !.pc = IF cur # t.prev_state \/ fs[SinceFile(line)] = None
                                 THEN "write_since" ELSE "read_since",
                          !.touched = @ \cup {SinceFile(line)}]]
    ELSE IF t.pc = "write_since"
    THEN \* fs::write(&since_file, &now_str).ok()
         [fs |-> [fs EXCEPT ![SinceFile(line)] = Some(Stamp(now))],
          t |-> [t EXCEPT !.pc = "read_since", !.touched = @ \cup {SinceFile(line)}]]
    ELSE IF t.pc = "read_since"
    THEN \* fs::read_to_string(&since_file).unwrap_or_default()
         [fs |-> fs,
          t |-> [t EXCEPT !.pc = "read_timestamp",
                          !.since_ts = IF IsSome(fs[SinceFile(line)])
                                       THEN Trim(Unwrap(fs[SinceFile(line)])) ELSE Text(""),
                          !.touched = @ \cup {SinceFile(line)}]]
    ELSE IF t.pc = "read_timestamp"
    THEN \* fs::read_to_string(&files.timestamp_file).ok(), determine_alert_action
         LET a == determine_alert_action(cur, t.prev_state, fs[TimestampFile(line)],
                                         threshold_minutes, now)
         IN  [fs |-> fs,
              t |-> [t EXCEPT !.pc = ArmOf(a.action),
                              !.action = a.action,
                              !.minutes_elapsed = a.minutes_elapsed,
                              !.touched = @ \cup {TimestampFile(line)}]]
    ELSE IF t.pc = "log"
    THEN \* log_state_change: append one line to the interruption log
         [fs |-> [fs EXCEPT ![LogFile(line)] =
                     AppendLine(@, LogEntry(now, t.prev_state, cur))],
          t |-> [t EXCEPT !.pc = "write_timestamp", !.touched = @ \cup {LogFile(line)}]]
    ELSE IF t.pc = "write_timestamp"
    THEN \* fs::write(&files.timestamp_file, timestamp_str).ok()
         [fs |-> [fs EXCEPT ![TimestampFile(line)] = Some(Stamp(now))],
          t |-> [t EXCEPT !.pc = "write_state", !.touched = @ \cup {TimestampFile(line)}]]
    ELSE IF t.pc = "write_state"
    THEN \* fs::write(&files.state_file, current_state).ok()
         [fs |-> [fs EXCEPT ![StateFile(line)] = Some(cur)],
          t |-> [t EXCEPT !.pc = "report", !.touched = @ \cup {StateFile(line)}]]
    ELSE IF t.pc = "send"
    THEN \* EmailConfig::load(base_dir), create_alert_email, send_alert
         [fs |-> fs,
          t |-> [t EXCEPT !.pc = "remove_timestamp",
                          !.sent = IF cfg
                                   THEN Append(@, [line_id |-> line, current_state |-> cur,
                                                   minutes_elapsed |-> t.minutes_elapsed])
                                   ELSE @]]
    ELSE IF t.pc = "remove_timestamp"
    THEN \* fs::remove_file(&files.timestamp_file).ok()
         [fs |-> [fs EXCEPT ![TimestampFile(line)] = None],
          t |-> [t EXCEPT !.pc = "report", !.touched = @ \cup {TimestampFile(line)}]]
    ELSE \* t.pc = "report": calculate_integrity_stats, find_gaps, ..., and the
         \* AuditReport of the line
         IF panics = "gaps"
         THEN [fs |-> fs, t |-> [t EXCEPT !.pc = "panicked"]]
         ELSE
         [fs |-> fs,
          t |-> [t EXCEPT !.pc = "done",
                          !.report = Some([line_id |-> line, since_timestamp |-> t.since_ts,
                                           current_state |-> cur])]]

\* collect_audit_data(line_id, base_dir, true, alert_threshold_minutes) run alone from
\* the thread's position to its end
RECURSIVE RunAudit(_, _, _, _, _, _, _, _)
RunAudit(line, fs, t, cur, panics, cfg, threshold_minutes, now) ==
    IF t.pc \in {"done", "panicked"} THEN [fs |-> fs, t |-> t]
    ELSE LET r == AuditStep(line, fs, t, cur, panics, cfg, threshold_minutes, now)
         IN  RunAudit(line, r.fs, r.t, cur, panics, cfg, threshold_minutes, now)

(***************************************************************************)
(* Dashboard mode: generate_dashboard runs the two audits in two threads.  *)
(* A step of the model is one file operation of one thread.                *)
(***************************************************************************)
Now == 100
Lines == {"A", "B"}
AlertPaths(line) == {StateFile(line), SinceFile(line), TimestampFile(line), LogFile(line)}
Paths == UNION {AlertPaths(line) : line \in Lines}

\* what a line's alert files hold before the run
StateContents == {None, Some(Text("ACTIVE"))}
SinceContents == {None, Some(Stamp(Now - 50))}
TimestampContents ==
    {None, Some(Stamp(Now - AlertThreshold * TicksPerMinute)),
     Some(Stamp(Now - (AlertThreshold - 1) * TicksPerMinute))}
LogContents == {None}

InitDashboard ==
    /\ pc = "ready"
    /\ FilesIdle /\ ZipIdle /\ ScoreIdle /\ RankIdle /\ CombineIdle
    /\ DateIdle /\ AnomIdle /\ IntegIdle /\ ScanIdle /\ LaterIdle
    /\ fsys \in {f \in [Paths -> StateContents \cup SinceContents
                                    \cup TimestampContents \cup LogContents] :
                    \A line \in Lines :
                        /\ f[StateFile(line)] \in StateContents
                        /\ f[SinceFile(line)] \in SinceContents
                        /\ f[TimestampFile(line)] \in TimestampContents
                        /\ f[LogFile(line)] \in LogContents}
    /\ fs_before = fsys
    /\ current \in [Lines -> [state : {Text("ACTIVE"), Text("IDLE")},
                              panics : {"none", "scan", "gaps"}]]
    /\ email_cfg \in BOOLEAN
    /\ thread = [line \in Lines |-> ThreadStart]

\* one step of the thread spawned for the line
ThreadStep(line) ==
    /\ pc = "ready"
    /\ thread[line].pc \notin {"done", "panicked"}
    /\ LET r == AuditStep(line, fsys, thread[line], current[line].state,
                          current[line].panics, email_cfg, Wide(0, AlertThreshold), Now)
       IN  /\ fsys' = r.fs
           /\ thread' = [thread EXCEPT ![line] = r.t]
    /\ UNCHANGED <<pc, fs_before, current, email_cfg>>
    /\ UNCHANGED <<fileVars, zipVars, metrics, rankVars, combVars>>
    /\ UNCHANGED <<dateVars, anomVars, integVars, scanVars, laterVars>>

\* (handle_a.join().unwrap(), handle_b.join().unwrap()) under catch_unwind
JoinThreads ==
    /\ pc = "ready"
    /\ \A line \in Lines : thread[line].pc \in {"done", "panicked"}
    /\ pc' = IF \E line \in Lines : thread[line].pc = "panicked" THEN "panicked" ELSE "done"
    /\ UNCHANGED <<fileVars, zipVars, metrics, rankVars, combVars>>
    /\ UNCHANGED <<dateVars, anomVars, integVars, scanVars, dashVars, laterVars>>

NextDashboard == ThreadStep("A") \/ ThreadStep("B") \/ JoinThreads

SpecDashboard == InitDashboard /\ [][NextDashboard]_vars

\* the two audits one after the other from the files before the run, the
\* audit of line first, then the audit of line second
Sequential(first, second) ==
    LET one == RunAudit(first, fs_before, ThreadStart, current[first].state,
                        current[first].panics, email_cfg, Wide(0, AlertThreshold), Now)
        two == RunAudit(second, one.fs, ThreadStart, current[second].state,
                        current[second].panics, email_cfg, Wide(0, AlertThreshold), Now)
    IN  [fs |-> two.fs, thread |-> (first :> one.t) @@ (second :> two.t)]

ThreadsEnded == \A line \in Lines : thread[line].pc \in {"done", "panicked"}

(***************************************************************************)
(* C20: in dashboard mode each thread reads and writes only the state,     *)
(* since, timestamp and interruption-log files that end with its own line  *)
(* id, and when both threads have ended, whatever the interleaving of      *)
(* their file operations was, the files, the reports and the alerts sent   *)
(* are those of the audit of A followed by the audit of B, and those of    *)
(* the audit of B followed by the audit of A.                              *)
(***************************************************************************)
C20_ParallelAsSequential ==
    /\ \A line \in Lines : thread[line].touched \subseteq AlertPaths(line)
    /\ \A line \in Lines : \A path \in thread[line].touched : path[2] = line
    /\ ThreadsEnded =>
          /\ fsys = Sequential("A", "B").fs
          /\ thread = Sequential("A", "B").thread
          /\ fsys = Sequential("B", "A").fs
          /\ thread = Sequential("B", "A").thread

\* both threads ended with a report, one after creating its timestamp file and
\* logging the change, the other after removing its timestamp file for an
\* alert, and each left its own state or timestamp file changed
C20_Witness ==
    /\ \A line \in Lines : thread[line].pc = "done" /\ IsSome(thread[line].report)
    /\ thread["A"].action = "CreateTimestamp"
    /\ thread["B"].action = "SendAlert"
    /\ Len(thread["B"].sent) = 1
    /\ IsSome(fsys[LogFile("A")])
    /\ fsys[TimestampFile("A")] = Some(Stamp(Now))
    /\ fsys[StateFile("A")] # fs_before[StateFile("A")]
    /\ fs_before[TimestampFile("B")] # None /\ fsys[TimestampFile("B")] = None

(***************************************************************************)
(* The audits of one line, one run after the other (main.rs, State Logic   *)
(* and check_and_send_alerts): each run reads the files the runs before    *)
(* left under base_dir.  Time passes between the runs.                     *)
(***************************************************************************)
MaxRuns == 4
MaxTicks == 3
ClockStart == 10

AlertLine == "A"
\* --alert-threshold: one minute, two minutes and u64::MAX
AlertThresholds == {Wide(0, 1), Wide(0, 2), Wide(2, -1)}
InitAlerts ==
    /\ pc = "ready"
    /\ FilesIdle /\ ZipIdle /\ ScoreIdle /\ RankIdle /\ CombineIdle
    /\ DateIdle /\ AnomIdle /\ IntegIdle /\ ScanIdle /\ LockIdle /\ CopyIdle
    /\ fs_before = <<>> /\ current = <<>> /\ thread = <<>>
    /\ \E state \in {None, Some(Text("ACTIVE")), Some(Padded(Text("IDLE")))},
          timestamp \in {None, Some(Stamp(ClockStart - 2 * TicksPerMinute)),
                         Some(SkippedStamp(ClockStart - 2 * TicksPerMinute)),
                         Some(Text("garbage"))},
          log \in {None, Some(<<LogEntry(0, Text("ACTIVE"), Text("IDLE"))>>)} :
            fsys = (StateFile(AlertLine) :> state) @@ (SinceFile(AlertLine) :> None)
                   @@ (TimestampFile(AlertLine) :> timestamp) @@ (LogFile(AlertLine) :> log)
    \* .email_config is present under the base_dir that has a log, absent under the other
    /\ email_cfg = (fsys[LogFile(AlertLine)] # None)
    /\ clock = ClockStart
    /\ alert_threshold \in AlertThresholds
    /\ runs = <<>>

\* one run of the audit of the line: what it was given and what it did
RunRecord(cur, r) ==
    [now |-> clock, current_state |-> cur, prev_state |-> r.t.prev_state,
     action |-> r.t.action, minutes_elapsed |-> r.t.minutes_elapsed,
     sent |-> r.t.sent, before |-> fsys, after |-> r.fs]

\* main: State Logic, Timestamp Logic, check_and_send_alerts
AuditRun ==
    /\ pc = "ready"
    /\ Len(runs) < MaxRuns
    /\ \E cur \in {Text("ACTIVE"), Text("IDLE")} :
          LET r == RunAudit(AlertLine, fsys, ThreadStart, cur, "none", email_cfg,
                            alert_threshold, clock)
          IN  /\ fsys' = r.fs
              /\ runs' = Append(runs, RunRecord(cur, r))
    /\ UNCHANGED <<pc, clock, alert_threshold, email_cfg, fs_before, current, thread>>
    /\ UNCHANGED <<fileVars, zipVars, metrics, rankVars, combVars>>
    /\ UNCHANGED <<dateVars, anomVars, integVars, scanVars, lockVars, copyVars>>

\* time passes
Tick ==
    /\ pc = "ready"
    /\ clock < ClockStart + MaxTicks
    /\ clock' = clock + 1
    /\ UNCHANGED <<pc, alert_threshold, runs, dashVars>>
    /\ UNCHANGED <<fileVars, zipVars, metrics, rankVars, combVars>>
    /\ UNCHANGED <<dateVars, anomVars, integVars, scanVars, lockVars, copyVars>>

NextAlerts == AuditRun \/ Tick

SpecAlerts == InitAlerts /\ [][NextAlerts]_vars

\* the content of the timestamp file a run found, and the ticks from the
\* minute it names to the run
TimestampBefore(run) == run.before[TimestampFile(AlertLine)]
TicksSinceStamp(run) == run.now - Unwrap(TimestampBefore(run)).minute * TicksPerMinute
ReadsAsLocalTime(content) == content # None /\ Unwrap(content).kind = "stamp"
\* at least alert_threshold minutes lie between the minute of the timestamp
\* file and the run
ThresholdPassed(run) ==
    alert_threshold.k = 0 /\ TicksSinceStamp(run) >= alert_threshold.off * TicksPerMinute

(***************************************************************************)
(* C21: the action determine_alert_action chooses in a run is               *)
(* CreateTimestamp when current_state differs from prev_state; with equal  *)
(* states it is NoAction when there is no timestamp content or the content *)
(* does not read as a local time, SendAlert with the whole minutes elapsed *)
(* when the timestamp lies at least alert_threshold minutes before the     *)
(* run, and WaitForThreshold otherwise.                                    *)
(***************************************************************************)
C21_DecisionTable ==
    \A i \in 1..Len(runs) :
        LET run == runs[i]
        IN  IF run.current_state # run.prev_state
            THEN run.action = "CreateTimestamp"
            ELSE IF ~ReadsAsLocalTime(TimestampBefore(run))
            THEN run.action = "NoAction"
            ELSE IF ThresholdPassed(run)
            THEN /\ run.action = "SendAlert"
                 /\ run.minutes_elapsed = TicksSinceStamp(run) \div TicksPerMinute
            ELSE run.action = "WaitForThreshold"

\* the state measured in the runs after run i up to run j is that of run i
StateKept(i, j) == \A k \in (i + 1)..j : runs[k].current_state = runs[i].current_state
\* at run j at least alert_threshold minutes have passed since the minute in
\* which run i recorded the change
PassedSince(i, j) ==
    /\ alert_threshold.k = 0
    /\ runs[j].now - Stamp(runs[i].now).minute * TicksPerMinute
           >= alert_threshold.off * TicksPerMinute
FirstPassedSince(i, j) == PassedSince(i, j) /\ \A k \in (i + 1)..(j - 1) : ~PassedSince(i, k)

(***************************************************************************)
(* C22: over the runs of one line, after a run that detects a state change *)
(* and while the state stays the same, SendAlert is the action of exactly  *)
(* one later run, the first at which at least alert_threshold minutes have *)
(* passed since the change; that run deletes the timestamp file; the runs  *)
(* before it wait and the runs after it take no action.                    *)
(***************************************************************************)
C22_OneAlertPerChange ==
    \A i \in 1..Len(runs) :
        runs[i].action = "CreateTimestamp" =>
            \A j \in (i + 1)..Len(runs) :
                StateKept(i, j) =>
                    /\ runs[j].action = "SendAlert" <=> FirstPassedSince(i, j)
                    /\ runs[j].action = "SendAlert" =>
                           runs[j].after[TimestampFile(AlertLine)] = None
                    /\ ~PassedSince(i, j) => runs[j].action = "WaitForThreshold"
                    /\ PassedSince(i, j) /\ ~FirstPassedSince(i, j) =>
                           runs[j].action = "NoAction"

\* run i saw another state than the run before left, while the timestamp file
\* of an earlier change was older than the threshold
OverridesPending(i) ==
    /\ runs[i].current_state # runs[i].prev_state
    /\ ReadsAsLocalTime(TimestampBefore(runs[i]))
    /\ ThresholdPassed(runs[i])

(***************************************************************************)
(* C23: a run that sees a state change while a timestamp file older than   *)
(* the threshold exists sends no alert for the earlier change and rewrites *)
(* the timestamp file with the current time; the threshold is then counted *)
(* from this change: while the state stays the same, a later run sends the *)
(* alert only once alert_threshold minutes have passed since this run.     *)
(***************************************************************************)
C23_ChangeOverridesPending ==
    \A i \in 1..Len(runs) :
        OverridesPending(i) =>
            /\ runs[i].action = "CreateTimestamp"
            /\ runs[i].sent = <<>>
            /\ runs[i].after[TimestampFile(AlertLine)] = Some(Stamp(runs[i].now))
            /\ \A j \in (i + 1)..Len(runs) :
                   StateKept(i, j) /\ runs[j].action = "SendAlert" => PassedSince(i, j)

\* a change overrode a pending alert, the next run waited and a later run sent
\* the alert of the new change
C23_Witness ==
    \E i \in 1..Len(runs) :
        /\ OverridesPending(i)
        /\ email_cfg
        /\ \E j \in (i + 1)..Len(runs), k \in (i + 2)..Len(runs) :
              /\ j < k /\ StateKept(i, k)
              /\ runs[j].action = "WaitForThreshold"
              /\ runs[k].action = "SendAlert" /\ Len(runs[k].sent) = 1

(***************************************************************************)
(* C24: after every run the state file of the line holds current_state,    *)
(* whichever action the run took.                                          *)
(***************************************************************************)
C24_StateFileHoldsCurrent ==
    \A i \in 1..Len(runs) :
        runs[i].after[StateFile(AlertLine)] = Some(runs[i].current_state)

\* the lines of the interruption log among the files fs
LogLines(fs) == IF fs[LogFile(AlertLine)] = None THEN <<>> ELSE Unwrap(fs[LogFile(AlertLine)])
StateChanged(run) == run.current_state # run.prev_state
\* the lines of the state changes among the first n runs, in their order
RECURSIVE ChangeLines(_)
ChangeLines(n) ==
    IF n = 0 THEN <<>>
    ELSE ChangeLines(n - 1) \o
         (IF StateChanged(runs[n])
          THEN <<LogEntry(runs[n].now, runs[n].prev_state, runs[n].current_state)>>
          ELSE <<>>)

(***************************************************************************)
(* C25: a run with current_state different from prev_state appends exactly *)
(* one line (timestamp, old state, new state) to the interruption log of   *)
(* the line, a run with equal states leaves the log as it was; after any   *)
(* sequence of runs the log is what it was before the first run followed   *)
(* by one line per state change, in the order of the changes.              *)
(***************************************************************************)
C25_LogAccumulates ==
    /\ \A i \in 1..Len(runs) :
          /\ StateChanged(runs[i]) =>
                LogLines(runs[i].after) =
                    Append(LogLines(runs[i].before),
                           LogEntry(runs[i].now, runs[i].prev_state, runs[i].current_state))
          /\ ~StateChanged(runs[i]) =>
                runs[i].after[LogFile(AlertLine)] = runs[i].before[LogFile(AlertLine)]
    /\ Len(runs) > 0 => LogLines(fsys) = LogLines(runs[1].before) \o ChangeLines(Len(runs))

\* three state changes and a run without change were added to a log that had
\* a line before
C25_Witness ==
    /\ Len(runs) = 4
    /\ Len(LogLines(runs[1].before)) = 1
    /\ Len(ChangeLines(4)) = 3
    /\ Len(LogLines(fsys)) = 4
    /\ \E i \in 1..3 : ~StateChanged(runs[i]) /\ StateChanged(runs[i + 1])

(***************************************************************************)
(* C26: a run whose action is WaitForThreshold or NoAction leaves the      *)
(* timestamp file exactly as it was: not created, not modified and not     *)
(* deleted.                                                                *)
(***************************************************************************)
C26_TimestampFileUntouched ==
    \A i \in 1..Len(runs) :
        runs[i].action \in {"WaitForThreshold", "NoAction"} =>
            runs[i].after[TimestampFile(AlertLine)] = runs[i].before[TimestampFile(AlertLine)]

\* the first run took no action on a timestamp file that does not read as a
\* local time, which is still there after it, and a later run waited on a
\* timestamp younger than the threshold
C26_Witness ==
    /\ Len(runs) >= 3
    /\ runs[1].action = "NoAction"
    /\ TimestampBefore(runs[1]) \in {Some(Text("garbage")),
                                      Some(SkippedStamp(ClockStart - 2 * TicksPerMinute))}
    /\ runs[1].after[TimestampFile(AlertLine)] = TimestampBefore(runs[1])
    /\ \E i \in 1..Len(runs) :
          runs[i].action = "WaitForThreshold" /\ IsSome(runs[i].after[TimestampFile(AlertLine)])

(***************************************************************************)
(* generate_dashboard and its lock file: several runs of the dashboard     *)
(* mode, started at any time, each a process of its own.                   *)
(***************************************************************************)
MaxDashRuns == 3
Pids == 1..MaxDashRuns

acquire_lock_NotExclusive(lock, pid, io) ==
    IF io = "ok" THEN [ok |-> TRUE, lock |-> Some(pid)] ELSE [ok |-> FALSE, lock |-> lock]

\* OpenOptions::new().write(true).create_new(true).mode(0o644).open(lockfile),
\* io telling whether the directory lets the file be created
acquire_lock(lock, pid, io) ==
    IF io = "ok" /\ lock = None
    THEN [ok |-> TRUE, lock |-> Some(pid)]
    ELSE [ok |-> FALSE, lock |-> lock]

\* a run of generate_dashboard before its first step
DashRunStart == [pc |-> "start", collected |-> FALSE, removed |-> 0, wrote |-> FALSE]

InitLock ==
    /\ pc = "ready"
    /\ FilesIdle /\ ZipIdle /\ ScoreIdle /\ RankIdle /\ CombineIdle
    /\ DateIdle /\ AnomIdle /\ IntegIdle /\ ScanIdle /\ DashIdle /\ AlertIdle /\ CopyIdle
    /\ lock_file = None
    /\ dash_runs = [p \in Pids |-> DashRunStart]

LockFrame ==
    /\ UNCHANGED <<pc, fileVars, zipVars, metrics, rankVars, combVars>>
    /\ UNCHANGED <<dateVars, anomVars, integVars, scanVars, dashVars, alertVars, copyVars>>

\* let _lock = match acquire_lock(lockfile) { Ok(l) => l, Err(e) => exit(1) }
AcquireLock ==
    \E p \in Pids, io \in {"ok", "denied"} :
        /\ dash_runs[p].pc = "start"
        /\ LET r == acquire_lock(lock_file, p, io)
           IN  /\ lock_file' = r.lock
               /\ dash_runs' = [dash_runs EXCEPT ![p].pc =
                                    IF r.ok THEN "collecting" ELSE "exited_refused"]
        /\ LockFrame

\* catch_unwind(|| thread::scope(..)): both audits, which may panic
CollectBothLines ==
    \E p \in Pids, panics \in BOOLEAN :
        /\ dash_runs[p].pc = "collecting"
        /\ dash_runs' = [dash_runs EXCEPT ![p].pc = IF panics THEN "collect_failed"
                                                    ELSE "rendering",
                                          ![p].collected = TRUE]
        /\ UNCHANGED lock_file
        /\ LockFrame

\* the else arm after catch_unwind: fs::remove_file(lockfile).ok(), exit(1)
CollectionFailed ==
    \E p \in Pids :
        /\ dash_runs[p].pc = "collect_failed"
        /\ lock_file' = None
        /\ dash_runs' = [dash_runs EXCEPT ![p].pc = "exited_error", ![p].removed = @ + 1]
        /\ LockFrame

\* render_dashboard and fs::write(output_file, html); on Err the lock file is
\* removed and the run exits with 1
WriteDashboard ==
    \E p \in Pids, write_ok \in BOOLEAN :
        /\ dash_runs[p].pc = "rendering"
        /\ IF write_ok
           THEN /\ dash_runs' = [dash_runs EXCEPT ![p].pc = "written", ![p].wrote = TRUE]
                /\ UNCHANGED lock_file
           ELSE /\ lock_file' = None
                /\ dash_runs' = [dash_runs EXCEPT ![p].pc = "exited_error",
                                                  ![p].removed = @ + 1]
        /\ LockFrame

\* println!("Dashboard written to: ..."), fs::remove_file(lockfile).ok()
FinishDashboard ==
    \E p \in Pids :
        /\ dash_runs[p].pc = "written"
        /\ lock_file' = None
        /\ dash_runs' = [dash_runs EXCEPT ![p].pc = "exited_ok", ![p].removed = @ + 1]
        /\ LockFrame

NextLock ==
    AcquireLock \/ CollectBothLines \/ CollectionFailed \/ WriteDashboard \/ FinishDashboard

SpecLock == InitLock /\ [][NextLock]_vars

\* the runs that are past acquire_lock and have not exited
PastAcquire == {p \in Pids : dash_runs[p].pc \in
                   {"collecting", "collect_failed", "rendering", "written"}}

(***************************************************************************)
(* C27: at most one run of the dashboard is past acquire_lock at any time, *)
(* and the lock file names it; a run that finds the lock file exits        *)
(* without collecting data and without removing the lock file; the run     *)
(* that holds the lock removes the lock file on each of its exit paths     *)
(* (dashboard written, panic during the collection, output file not        *)
(* written), so that the lock file is absent whenever no run is past       *)
(* acquire_lock and a later run acquires it.                               *)
(***************************************************************************)
C27_SingleInstance ==
    /\ Cardinality(PastAcquire) <= 1
    /\ \A p \in PastAcquire : lock_file = Some(p)
    /\ PastAcquire = {} => lock_file = None
    /\ \A p \in Pids :
          /\ dash_runs[p].pc = "exited_refused" =>
                ~dash_runs[p].collected /\ dash_runs[p].removed = 0 /\ ~dash_runs[p].wrote
          /\ dash_runs[p].pc \in {"exited_ok", "exited_error"} =>
                dash_runs[p].removed = 1 /\ dash_runs[p].collected
          /\ dash_runs[p].pc = "exited_ok" <=> dash_runs[p].wrote /\ dash_runs[p].removed = 1

\* one run exited after a failure and removed the lock file, a run started
\* meanwhile was refused, and a later run holds the lock
C27_Witness ==
    \E p, q, r \in Pids :
        /\ dash_runs[p].pc = "exited_error"
        /\ dash_runs[q].pc = "exited_refused"
        /\ dash_runs[r].pc = "rendering"
        /\ lock_file = Some(r)

(***************************************************************************)
(* estimates.rs: get_current_copy_date.  The folder date of a record is    *)
(* taken as in find_gaps (the same prefix test, length test and slice).    *)
(***************************************************************************)
RecentMinutes == 5

IsRecent_Inclusive(now, mtime) == NumMinutes(now - mtime) <= RecentMinutes

\* now.signed_duration_since(f.modified).num_minutes() < 5
IsRecent(now, mtime) == NumMinutes(now - mtime) < RecentMinutes

\* .filter(recent).filter_map(folder date).next(): the records are taken in
\* their order up to the first recent one with a folder date
RECURSIVE RecentDate(_, _, _, _)
RecentDate(fs, mtimes, line, now) ==
    IF fs = <<>> THEN None
    ELSE IF ~IsRecent(now, Head(mtimes)) THEN RecentDate(Tail(fs), Tail(mtimes), line, now)
    ELSE LET o == GapDateOf(Head(fs), line)
         IN  IF o = None THEN RecentDate(Tail(fs), Tail(mtimes), line, now) ELSE o

\* the folder dates of the line, sorted, without repetition
get_folder_dates(fs, line) == Dedup(SortAsc(GapDates(fs, line)))

\* Panic, or Some(Option<NaiveDate>)
get_current_copy_date(fs, mtimes, line, now) ==
    LET recent_date == RecentDate(fs, mtimes, line, now)
    IN  IF recent_date = Panic THEN Panic
        ELSE IF recent_date # None THEN Some(recent_date)
        ELSE IF GapPanics(fs, line) THEN Panic
        ELSE LET dates == get_folder_dates(fs, line)
             IN  IF dates # <<>> THEN Some(Some(dates[Len(dates)])) ELSE Some(None)

\* Option::unwrap_or
UnwrapOr(o, default) == IF o = None THEN default ELSE Unwrap(o)

MaxCopyFiles == 3
CopyNow == 100
CopyD1 == FromYmd(2024, 9, 26)
CopyD2 == FromYmd(2024, 9, 27)
CopyStart == FromYmd(2024, 9, 2)
CopyDirs ==
    {DatedDir("A", CopyD1), DatedDir("A", CopyD2), DatedDir("B", CopyD2), SplitDir,
     [head |-> "Archive_Beam_A_", tail_len |-> 7, split |-> FALSE, ymd |-> <<>>]}
\* modified four and a half minutes ago, five minutes ago, and a minute ahead
CopyMtimes ==
    {CopyNow - RecentMinutes * TicksPerMinute + 1, CopyNow - RecentMinutes * TicksPerMinute,
     CopyNow + TicksPerMinute}

InitCopy ==
    /\ pc = "ready"
    /\ files \in SeqsUpTo({Entry("a.zip", 1000, TRUE, dir) : dir \in CopyDirs}, MaxCopyFiles)
    /\ modified \in [1..Len(files) -> CopyMtimes]
    /\ line_id = "A"
    /\ gap_report = None
    /\ anomaly_report = <<>> /\ start_date = CopyStart /\ end_date = 0 /\ today = 0
    /\ ranking_report = <<>>
    /\ clock = CopyNow
    /\ alert_threshold = <<>> /\ runs = <<>>
    /\ current_copy_date = None
    /\ ZipIdle /\ ScoreIdle /\ CombineIdle
    /\ DateIdle /\ AnomIdle /\ IntegIdle /\ ScanIdle /\ DashIdle /\ LockIdle

\* calculate_estimates, step 2: get_current_copy_date(..).unwrap_or(start_date)
GetCurrentCopyDate ==
    /\ pc = "ready"
    /\ LET r == get_current_copy_date(files, modified, line_id, clock)
       IN  IF r = Panic
           THEN current_copy_date' = None /\ pc' = "panicked"
           ELSE /\ current_copy_date' =
                       Some([found |-> Unwrap(r), used |-> UnwrapOr(Unwrap(r), start_date)])
                /\ pc' = "done"
    /\ UNCHANGED <<fileVars, zipVars, metrics, rankVars, combVars, modified>>
    /\ UNCHANGED <<dateVars, anomVars, integVars, scanVars, dashVars, alertVars, lockVars>>

NextCopy == GetCurrentCopyDate

SpecCopy == InitCopy /\ [][NextCopy]_vars

\* the records whose folder name gives a date for the line, and that date
DatedRecords ==
    {i \in 1..Len(files) :
        /\ files[i].parent_dir.head = Prefix(line_id)
        /\ ~files[i].parent_dir.split
        /\ files[i].parent_dir.tail_len >= 10
        /\ files[i].parent_dir.ymd # <<>>}
FolderDate(i) ==
    FromYmd(files[i].parent_dir.ymd[1], files[i].parent_dir.ymd[2], files[i].parent_dir.ymd[3])
\* the records modified less than five minutes before the call
RecentRecords == {i \in 1..Len(files) : clock - modified[i] < 5 * TicksPerMinute}

(***************************************************************************)
(* C30: when some record was modified less than 5 minutes ago and its      *)
(* folder name gives a date for the line, get_current_copy_date returns    *)
(* the folder date of such a record; otherwise it returns the latest       *)
(* folder date among all records; it returns None when no record has a     *)
(* dated folder, and calculate_estimates then takes the configured         *)
(* start_date as the current copy date.                                    *)
(***************************************************************************)
C30_CurrentCopyDate ==
    pc = "done" =>
        LET r == Unwrap(current_copy_date)
        IN  /\ IF DatedRecords \cap RecentRecords # {}
               THEN r.found \in {Some(FolderDate(i)) : i \in DatedRecords \cap RecentRecords}
               ELSE IF DatedRecords # {}
               THEN /\ r.found \in {Some(FolderDate(i)) : i \in DatedRecords}
                    /\ \A i \in DatedRecords : FolderDate(i) <= Unwrap(r.found)
               ELSE r.found = None
            /\ r.used = IF r.found = None THEN start_date ELSE Unwrap(r.found)

\* the date returned is that of a recently modified record although a record
\* modified five minutes ago lies in a later folder and an earlier record of
\* the list, recent too, has no date for the line
C30_Witness ==
    /\ pc = "done"
    /\ Len(files) = 3
    /\ 1 \in RecentRecords \ DatedRecords
    /\ 2 \in RecentRecords \cap DatedRecords
    /\ 3 \in DatedRecords \ RecentRecords
    /\ modified[3] = CopyNow - RecentMinutes * TicksPerMinute
    /\ FolderDate(2) < FolderDate(3)
    /\ Unwrap(current_copy_date).found = Some(FolderDate(2))
====
